---- MODULE Spec2Model ----
(***************************************************************************)
(* Model of the command handlers and of the per-client fields of the       *)
(* key/value server.                                                       *)
(*                                                                         *)
(* A text (Rust String) is a sequence of one-character strings, so that    *)
(* concatenation, length, parsing and formatting are computed character by *)
(* character.  A 64-bit integer (isize/usize) is a sign and a magnitude,   *)
(* the magnitude being its sequence of decimal digits without leading      *)
(* zeros, so that the full 64-bit range is represented exactly.            *)
(***************************************************************************)
EXTENDS Integers, Sequences, FiniteSets, TLC

VARIABLES
    database,         \* the store: key -> value, for the keys that exist
    db0,              \* the store before the first command
    hist,             \* the commands run so far, each with its result
    overflow_checks,  \* whether the build traps integer overflow (debug) or wraps (release)
    client,           \* the fields of one client
    clast,            \* the last call on the client, with its result
    expiry,           \* key -> "past" or "future", for the keys that have a deadline
    server,           \* the attributes of the server: its shutdown flag
    threads,          \* client thread -> its command and how far its handler has run
    mutex             \* the thread that holds the lock of the store, or "free"

vars == <<database, db0, hist, overflow_checks, client, clast, expiry, server, threads, mutex>>

(***************************************************************************)
(* Texts                                                                   *)
(***************************************************************************)
DigitChars == <<"0", "1", "2", "3", "4", "5", "6", "7", "8", "9">>

IsDigit(c) == \E i \in 1..10 : DigitChars[i] = c

DigitOf(c) == (CHOOSE i \in 1..10 : DigitChars[i] = c) - 1

CRLF == <<"\r", "\n">>

Front(s) == SubSeq(s, 1, Len(s) - 1)

Last(s) == s[Len(s)]

\* Vec::pop: the last element leaves the vector
PopBack(s) == Front(s)

\* Vec::remove(0): the first element leaves the vector
RemoveFirst(s) == Tail(s)

RECURSIVE Concat(_)
Concat(ss) == IF ss = <<>> THEN <<>> ELSE Head(ss) \o Concat(Tail(ss))

(***************************************************************************)
(* Magnitudes: sequences of decimal digits, most significant first         *)
(***************************************************************************)
RECURSIVE StripZeros(_)
StripZeros(m) == IF m # <<>> /\ Head(m) = 0 THEN StripZeros(Tail(m)) ELSE m

RECURSIVE MagLess(_, _)
\* a < b for magnitudes without leading zeros
MagLess(a, b) ==
    IF Len(a) # Len(b) THEN Len(a) < Len(b)
    ELSE IF a = <<>> THEN FALSE
    ELSE IF Head(a) # Head(b) THEN Head(a) < Head(b)
    ELSE MagLess(Tail(a), Tail(b))

MagLeq(a, b) == a = b \/ MagLess(a, b)

RECURSIVE MagAddC(_, _, _)
MagAddC(a, b, c) ==
    IF a = <<>> /\ b = <<>> THEN (IF c = 0 THEN <<>> ELSE <<c>>)
    ELSE LET da == IF a = <<>> THEN 0 ELSE Last(a)
             db == IF b = <<>> THEN 0 ELSE Last(b)
             s  == da + db + c
             ra == IF a = <<>> THEN <<>> ELSE Front(a)
             rb == IF b = <<>> THEN <<>> ELSE Front(b)
         IN  MagAddC(ra, rb, s \div 10) \o <<s % 10>>

MagAdd(a, b) == StripZeros(MagAddC(a, b, 0))

RECURSIVE MagSubB(_, _, _)
\* a - b - borrow, for a >= b
MagSubB(a, b, w) ==
    IF a = <<>> THEN <<>>
    ELSE LET da == Last(a)
             db == IF b = <<>> THEN 0 ELSE Last(b)
             d  == da - db - w
             rb == IF b = <<>> THEN <<>> ELSE Front(b)
         IN  MagSubB(Front(a), rb, IF d < 0 THEN 1 ELSE 0)
                 \o <<IF d < 0 THEN d + 10 ELSE d>>

MagSub(a, b) == StripZeros(MagSubB(a, b, 0))

RECURSIVE MagOfNat(_)
MagOfNat(n) == IF n = 0 THEN <<>> ELSE MagOfNat(n \div 10) \o <<n % 10>>

RECURSIVE NatOfMag(_)
NatOfMag(m) == IF m = <<>> THEN 0 ELSE 10 * NatOfMag(Front(m)) + Last(m)

(***************************************************************************)
(* Signed integers                                                         *)
(***************************************************************************)
Num(neg, mag) == [neg |-> neg /\ mag # <<>>, mag |-> mag]

NumOfNat(n) == Num(FALSE, MagOfNat(n))

NumNeg(a) == Num(~a.neg, a.mag)

\* the mathematical sum
NumAdd(a, b) ==
    IF a.neg = b.neg THEN Num(a.neg, MagAdd(a.mag, b.mag))
    ELSE IF MagLess(a.mag, b.mag) THEN Num(b.neg, MagSub(b.mag, a.mag))
    ELSE Num(a.neg, MagSub(a.mag, b.mag))

\* the mathematical difference
NumSub(a, b) == NumAdd(a, NumNeg(b))

\* isize::MAX = 2^63 - 1, the magnitude of isize::MIN = 2^63, and 2^64
ISIZE_MAX_MAG == <<9,2,2,3,3,7,2,0,3,6,8,5,4,7,7,5,8,0,7>>
ISIZE_MIN_MAG == <<9,2,2,3,3,7,2,0,3,6,8,5,4,7,7,5,8,0,8>>
USIZE_MAX_MAG == <<1,8,4,4,6,7,4,4,0,7,3,7,0,9,5,5,1,6,1,5>>
TWO_POW_64    == <<1,8,4,4,6,7,4,4,0,7,3,7,0,9,5,5,1,6,1,6>>

InISizeRange(a) ==
    IF a.neg THEN MagLeq(a.mag, ISIZE_MIN_MAG) ELSE MagLeq(a.mag, ISIZE_MAX_MAG)

\* two's complement wrap-around of a sum or difference of two isize values
WrapISize(a) ==
    IF InISizeRange(a) THEN a
    ELSE IF a.neg THEN NumAdd(a, Num(FALSE, TWO_POW_64))
    ELSE NumSub(a, Num(FALSE, TWO_POW_64))

\* isize::to_string / usize::to_string
NumText(a) ==
    (IF a.neg THEN <<"-">> ELSE <<>>)
        \o (IF a.mag = <<>> THEN <<"0">>
            ELSE [i \in 1..Len(a.mag) |-> DigitChars[a.mag[i] + 1]])

NoNum == [neg |-> FALSE, mag |-> <<>>]

\* str::parse::<isize>: an optional '+' or '-', then one or more decimal
\* digits, the value within the 64-bit signed range
ParseISize(t) ==
    LET signed == t # <<>> /\ Head(t) \in {"+", "-"}
        body   == IF signed THEN Tail(t) ELSE t
        wf     == body # <<>> /\ \A i \in 1..Len(body) : IsDigit(body[i])
        mag    == StripZeros([i \in 1..Len(body) |-> DigitOf(body[i])])
        n      == Num(signed /\ Head(t) = "-", mag)
    IN  IF wf /\ InISizeRange(n) THEN [ok |-> TRUE, num |-> n]
        ELSE [ok |-> FALSE, num |-> NoNum]

\* str::parse::<usize>: an optional '+', then one or more decimal digits, the
\* value within the 64-bit unsigned range
ParseUSize(t) ==
    LET signed == t # <<>> /\ Head(t) = "+"
        body   == IF signed THEN Tail(t) ELSE t
        wf     == body # <<>> /\ \A i \in 1..Len(body) : IsDigit(body[i])
        mag    == StripZeros([i \in 1..Len(body) |-> DigitOf(body[i])])
    IN  IF wf /\ MagLeq(mag, USIZE_MAX_MAG) THEN [ok |-> TRUE, num |-> Num(FALSE, mag)]
        ELSE [ok |-> FALSE, num |-> NoNum]

(***************************************************************************)
(* Replies: Result<String, ErrorStruct>, or the handler panicking          *)
(***************************************************************************)
Ok(reply) == [kind |-> "Ok", reply |-> reply, prefix |-> "", message |-> ""]

\* ErrorStruct::new(prefix, message)
Err(prefix, message) ==
    [kind |-> "Err", reply |-> <<>>, prefix |-> prefix, message |-> message]

Panic == [kind |-> "Panic", reply |-> <<>>, prefix |-> "", message |-> ""]

NIL == <<"(", "n", "i", "l", ")">>

EMPTY_LIST_OR_SET ==
    <<"(", "e", "m", "p", "t", "y", " ", "l", "i", "s", "t", " ", "o", "r", " ",
      "s", "e", "t", ")">>

RInteger_encode(n) == <<":">> \o NumText(n) \o CRLF

RSimpleString_encode(t) == <<"+">> \o t \o CRLF

RBulkString_encode(t) ==
    IF t = NIL THEN <<"$", "-", "1">> \o CRLF
    ELSE <<"$">> \o NumText(NumOfNat(Len(t))) \o CRLF \o t \o CRLF

RArray_encode(ts) ==
    <<"*">> \o NumText(NumOfNat(Len(ts))) \o CRLF
        \o Concat([i \in 1..Len(ts) |-> RBulkString_encode(ts[i])])

wrong_number_of_arguments == Err("ERR", "wrong number of arguments for command")

value_not_integer == Err("ERR", "value is not an integer or out of range")

err_wrongtype ==
    Err("WRONGTYPE", "Operation against a key holding the wrong kind of value")

(***************************************************************************)
(* The store: HashMap<String, TypeSaved>                                   *)
(***************************************************************************)
StringV(t) == [type |-> "String", str |-> t, list |-> <<>>, set |-> {}]

ListV(l) == [type |-> "List", str |-> <<>>, list |-> l, set |-> {}]

SetV(s) == [type |-> "Set", str |-> <<>>, list |-> <<>>, set |-> s]

Database_new == <<>>

Exists(db, key) == key \in DOMAIN db

Database_insert(db, key, value) ==
    [k \in DOMAIN db \cup {key} |-> IF k = key THEN value ELSE db[k]]

Database_remove(db, key) == [k \in DOMAIN db \ {key} |-> db[k]]

\* what a handler returns: the store it leaves and its result
Out(db, res) == [db |-> db, res |-> res]

(***************************************************************************)
(* APPEND                                                                  *)
(***************************************************************************)
\* a variant in which APPEND stores the new text in place of the old one
Append_run_overwrite(buffer_vec, db) ==
    IF Len(buffer_vec) < 2 THEN Out(db, Panic)
    ELSE LET new_value == Last(buffer_vec)
             key       == Last(PopBack(buffer_vec))
         IN  IF Exists(db, key) /\ db[key].type # "String"
             THEN Out(db, Err("ERR", "key provided is not from strings"))
             ELSE Out(Database_insert(db, key, StringV(new_value)),
                      Ok(RInteger_encode(NumOfNat(Len(new_value)))))

Append_run(buffer_vec, db) ==
    IF Len(buffer_vec) < 2 THEN Out(db, Panic)
    ELSE LET new_value == Last(buffer_vec)
             key       == Last(PopBack(buffer_vec))
         IN  IF Exists(db, key) THEN
                 IF db[key].type = "String" THEN
                     LET old_value == db[key].str \o new_value
                     IN  Out(Database_insert(db, key, StringV(old_value)),
                             Ok(RInteger_encode(NumOfNat(Len(old_value)))))
                 ELSE Out(db, Err("ERR", "key provided is not from strings"))
             ELSE Out(Database_insert(db, key, StringV(new_value)),
                      Ok(RInteger_encode(NumOfNat(Len(new_value)))))

(***************************************************************************)
(* INCRBY / DECRBY                                                         *)
(***************************************************************************)
Computed(n) == [panic |-> FALSE, num |-> n]

Overflowed == [panic |-> TRUE, num |-> NoNum]

\* a + b or a - b on isize: the build either traps the overflow or wraps
Arith(exact, checks) ==
    IF InISizeRange(exact) THEN Computed(exact)
    ELSE IF checks THEN Overflowed
    ELSE Computed(WrapISize(exact))

\* a variant in which the increment subtracts
incr_subtracts(addend1, addend2, checks) == Arith(NumSub(addend1, addend2), checks)

incr(addend1, addend2, checks) == Arith(NumAdd(addend1, addend2), checks)

\* a variant in which the decrement adds
decr_adds(minuend, subtrahend, checks) == Arith(NumAdd(minuend, subtrahend), checks)

decr(minuend, subtrahend, checks) == Arith(NumSub(minuend, subtrahend), checks)

parse_integer(value) ==
    LET p == ParseISize(value)
    IN  IF p.ok THEN [ok |-> TRUE, num |-> p.num, err |-> Panic]
        ELSE [ok |-> FALSE, num |-> NoNum, err |-> value_not_integer]

\* A function pointer argument is modelled by the name of the function it
\* points to; call_op applies the function so named.
call_op(op, a, b, checks) ==
    IF op = "incr" THEN incr(a, b, checks) ELSE decr(a, b, checks)

\* A key that is missing is set to "0" before the operation.  The point at
\* which it is written is one of: before the amount is parsed, after the
\* amount is parsed and before the operation, or only with the result.
Creations == {"before_parse", "before_operation", "on_write"}

execute_value_modification(db, buffer, op, checks, creation) ==
    IF Len(buffer) # 2 THEN Out(db, wrong_number_of_arguments)
    ELSE LET number == parse_integer(buffer[2])
             key    == buffer[1]
             zeroed == IF Exists(db, key) THEN db
                       ELSE Database_insert(db, key, StringV(<<"0">>))
             parsed == IF creation = "before_parse" THEN zeroed ELSE db
             read   == IF creation = "on_write" THEN db ELSE zeroed
         IN  IF ~number.ok THEN Out(parsed, number.err)
             ELSE IF Exists(db, key) /\ db[key].type # "String" THEN Out(db, err_wrongtype)
             ELSE LET current == IF Exists(db, key) THEN parse_integer(db[key].str)
                                 ELSE [ok |-> TRUE, num |-> NumOfNat(0), err |-> Panic]
                  IN  IF ~current.ok THEN Out(db, current.err)
                      ELSE LET new_value == call_op(op, current.num, number.num, checks)
                           IN  IF new_value.panic THEN Out(read, Panic)
                               ELSE Out(Database_insert(db, key,
                                            StringV(NumText(new_value.num))),
                                        Ok(RInteger_encode(new_value.num)))

Incrby_run(buffer, db, checks, creation) ==
    execute_value_modification(db, buffer, "incr", checks, creation)

Decrby_run(buffer_vec, db, checks, creation) ==
    execute_value_modification(db, buffer_vec, "decr", checks, creation)

(***************************************************************************)
(* GETDEL                                                                  *)
(***************************************************************************)
Getdel_run(buffer, db) ==
    IF Len(buffer) # 1
    THEN Out(db, Err("ERR", "wrong number of arguments for 'getdel' command"))
    ELSE LET key == Last(buffer)
         IN  IF ~Exists(db, key) THEN Out(db, Ok(RBulkString_encode(NIL)))
             ELSE IF db[key].type # "String"
             THEN Out(db, Err("ERR", "key provided is not from string"))
             ELSE Out(Database_remove(db, key), Ok(RBulkString_encode(db[key].str)))

(***************************************************************************)
(* Lists: LPUSH, RPUSH, LPUSHX, RPUSHX, LPOP, RPOP                         *)
(***************************************************************************)
\* a variant in which the values are put in front as a block, in argument order
fill_list_as_block(buffer, list) == buffer \o list

RECURSIVE fill_list_from_top(_, _)
fill_list_from_top(buffer, list) ==
    IF buffer = <<>> THEN list
    ELSE fill_list_from_top(RemoveFirst(buffer), <<Head(buffer)>> \o list)

RECURSIVE fill_list_from_bottom(_, _)
fill_list_from_bottom(buffer, list) ==
    IF buffer = <<>> THEN list
    ELSE fill_list_from_bottom(RemoveFirst(buffer), list \o <<Head(buffer)>>)

call_fill_list(fill_list, buffer, list) ==
    IF fill_list = "fill_list_from_top"
    THEN fill_list_from_top(buffer, list)
    ELSE fill_list_from_bottom(buffer, list)

\* a variant in which a push on a key of another type replaces the value
push_at_coerce(buffer, db, fill_list) ==
    IF buffer = <<>> THEN Out(db, Panic)
    ELSE LET key  == Head(buffer)
             rest == RemoveFirst(buffer)
             old  == IF Exists(db, key) /\ db[key].type = "List"
                     THEN db[key].list ELSE <<>>
             list_of_values == call_fill_list(fill_list, rest, old)
         IN  Out(Database_insert(db, key, ListV(list_of_values)),
                 Ok(RInteger_encode(NumOfNat(Len(list_of_values)))))

push_at(buffer, db, fill_list) ==
    IF buffer = <<>> THEN Out(db, Panic)
    ELSE LET key  == Head(buffer)
             rest == RemoveFirst(buffer)
         IN  IF Exists(db, key) THEN
                 IF db[key].type = "List" THEN
                     LET list_of_values == call_fill_list(fill_list, rest, db[key].list)
                     IN  Out(Database_insert(db, key, ListV(list_of_values)),
                             Ok(RInteger_encode(NumOfNat(Len(list_of_values)))))
                 ELSE Out(db, Err("ERR", "key provided is not from strings"))
             ELSE LET new_list == call_fill_list(fill_list, rest, <<>>)
                  IN  Out(Database_insert(db, key, ListV(new_list)),
                          Ok(RInteger_encode(NumOfNat(Len(new_list)))))

\* a variant in which a push on an absent key creates the list
pushx_at_creates(buffer, db, fill_list) == push_at(buffer, db, fill_list)

pushx_at(buffer, db, fill_list) ==
    IF buffer = <<>> THEN Out(db, Panic)
    ELSE LET key  == Head(buffer)
             rest == RemoveFirst(buffer)
         IN  IF Exists(db, key) THEN
                 IF db[key].type = "List" THEN
                     LET list_of_values == call_fill_list(fill_list, rest, db[key].list)
                     IN  Out(Database_insert(db, key, ListV(list_of_values)),
                             Ok(RInteger_encode(NumOfNat(Len(list_of_values)))))
                 ELSE Out(db, Err("ERR", "key provided is not from strings"))
             ELSE Out(db, Err("ERR", "no list found with entered key"))

not_a_natural_number == Err("ERRUSIZE", "provided counter is not a natural number")

\* a variant in which a count that is not a natural number counts as 1
parse_count_lenient(buffer) ==
    IF buffer = <<>>
    THEN [ok |-> TRUE, counter |-> NumOfNat(1), buffer |-> buffer, err |-> Panic]
    ELSE LET p == ParseUSize(Last(buffer))
         IN  [ok |-> TRUE,
              counter |-> IF p.ok /\ p.num.mag # <<>> THEN p.num ELSE NumOfNat(1),
              buffer |-> PopBack(buffer), err |-> Panic]

\* the count (1 when no argument is left), or the error; and the buffer left
parse_count(buffer) ==
    IF buffer = <<>>
    THEN [ok |-> TRUE, counter |-> NumOfNat(1), buffer |-> buffer, err |-> Panic]
    ELSE LET p == ParseUSize(Last(buffer))
         IN  IF p.ok /\ p.num.mag # <<>>
             THEN [ok |-> TRUE, counter |-> p.num, buffer |-> PopBack(buffer), err |-> Panic]
             ELSE [ok |-> FALSE, counter |-> NoNum, buffer |-> PopBack(buffer),
                   err |-> not_a_natural_number]

\* what a pop leaves: the list, and the reply (panicked when an element is
\* taken from an empty list)
Popped(list, reply, panic) == [list |-> list, reply |-> reply, panic |-> panic]

remove_values_from_top(list, counter) ==
    IF counter > 1 THEN
        IF counter > Len(list) THEN Popped(<<>>, <<>>, TRUE)
        ELSE Popped(SubSeq(list, counter + 1, Len(list)),
                    RArray_encode(SubSeq(list, 1, counter)), FALSE)
    ELSE IF list = <<>> THEN Popped(list, <<>>, TRUE)
    ELSE Popped(Tail(list), RBulkString_encode(Head(list)), FALSE)

remove_values_from_bottom(list, counter) ==
    IF counter > 1 THEN
        IF counter > Len(list) THEN Popped(<<>>, <<>>, TRUE)
        ELSE Popped(SubSeq(list, 1, Len(list) - counter),
                    RArray_encode([i \in 1..counter |-> list[Len(list) + 1 - i]]), FALSE)
    ELSE IF list = <<>> THEN Popped(list, <<>>, TRUE)
    ELSE Popped(Front(list), RBulkString_encode(Last(list)), FALSE)

call_remove_values(fill_list, list, counter) ==
    IF fill_list = "remove_values_from_top"
    THEN remove_values_from_top(list, counter)
    ELSE remove_values_from_bottom(list, counter)

\* a variant in which a count beyond the length takes the whole list
pop_at_unchecked(buffer, db, fill_list) ==
    IF buffer = <<>> THEN Out(db, wrong_number_of_arguments)
    ELSE LET key   == Head(buffer)
             count == parse_count(RemoveFirst(buffer))
         IN  IF ~count.ok THEN Out(db, count.err)
             ELSE IF count.buffer # <<>> THEN Out(db, wrong_number_of_arguments)
             ELSE IF ~Exists(db, key) THEN Out(db, Ok(RBulkString_encode(NIL)))
             ELSE IF db[key].type # "List"
             THEN Out(db, Err("ERR", "key provided is not from strings"))
             ELSE LET n      == IF MagLeq(count.counter.mag, MagOfNat(Len(db[key].list)))
                                THEN NatOfMag(count.counter.mag) ELSE Len(db[key].list)
                      popped == call_remove_values(fill_list, db[key].list, n)
                  IN  IF popped.panic THEN Out(db, Panic)
                      ELSE Out(Database_insert(db, key, ListV(popped.list)),
                               Ok(popped.reply))

pop_at(buffer, db, fill_list) ==
    IF buffer = <<>> THEN Out(db, wrong_number_of_arguments)
    ELSE LET key   == Head(buffer)
             count == parse_count(RemoveFirst(buffer))
         IN  IF ~count.ok THEN Out(db, count.err)
             ELSE IF count.buffer # <<>> THEN Out(db, wrong_number_of_arguments)
             ELSE IF ~Exists(db, key) THEN Out(db, Ok(RBulkString_encode(NIL)))
             ELSE IF db[key].type # "List"
             THEN Out(db, Err("ERR", "key provided is not from strings"))
             ELSE IF MagLeq(count.counter.mag, MagOfNat(Len(db[key].list)))
             THEN LET popped == call_remove_values(fill_list, db[key].list, NatOfMag(count.counter.mag))
                  IN  IF popped.panic THEN Out(db, Panic)
                      ELSE Out(Database_insert(db, key, ListV(popped.list)),
                               Ok(popped.reply))
             ELSE Out(db, Err("ERR", "argument is not a number or out of index"))

LPush_run(buffer, db) == push_at(buffer, db, "fill_list_from_top")

RPush_run(buffer, db) == push_at(buffer, db, "fill_list_from_bottom")

LPushx_run(buffer, db) == pushx_at(buffer, db, "fill_list_from_top")

RPushx_run(buffer, db) == pushx_at(buffer, db, "fill_list_from_bottom")

LPop_run(buffer, db) == pop_at(buffer, db, "remove_values_from_top")

RPop_run(buffer, db) == pop_at(buffer, db, "remove_values_from_bottom")

(***************************************************************************)
(* The handlers of lpush.rs and lpop.rs, whose lists are vectors           *)
(***************************************************************************)
RECURSIVE LPush_fill_list(_, _)
\* the buffer is popped from its end and each value pushed at the end of the
\* vector
LPush_fill_list(buffer, list) ==
    IF buffer = <<>> THEN list
    ELSE LPush_fill_list(PopBack(buffer), Append(list, Last(buffer)))

LPush_vec_run(buffer, db) ==
    IF buffer = <<>> THEN Out(db, Panic)
    ELSE LET key    == Head(buffer)
             values == RemoveFirst(buffer)
         IN  IF Exists(db, key) THEN
                 IF db[key].type = "List" THEN
                     LET list_of_values == LPush_fill_list(values, db[key].list)
                     IN  Out(Database_insert(db, key, ListV(list_of_values)),
                             Ok(RInteger_encode(NumOfNat(Len(list_of_values)))))
                 ELSE Out(db, Err("ERR", "key provided is not from strings"))
             ELSE LET new_list == LPush_fill_list(values, <<>>)
                  IN  Out(Database_insert(db, key, ListV(new_list)),
                          Ok(RInteger_encode(NumOfNat(Len(new_list)))))

\* the count (1 when no argument is left), or the error
LPop_parse_count(buffer) ==
    IF buffer = <<>> THEN [ok |-> TRUE, counter |-> NumOfNat(1), err |-> Panic]
    ELSE LET p == ParseUSize(Last(buffer))
         IN  IF p.ok /\ p.num.mag # <<>>
             THEN [ok |-> TRUE, counter |-> p.num, err |-> Panic]
             ELSE [ok |-> FALSE, counter |-> NoNum, err |-> not_a_natural_number]

\* list.remove(0), counter times into an array or once into a bulk string;
\* taking from an empty vector panics, with the elements before it taken
LPop_fill_list(list, counter) ==
    IF MagLess(MagOfNat(1), counter.mag) THEN
        IF MagLess(MagOfNat(Len(list)), counter.mag) THEN Popped(<<>>, <<>>, TRUE)
        ELSE Popped(SubSeq(list, NatOfMag(counter.mag) + 1, Len(list)),
                    RArray_encode(SubSeq(list, 1, NatOfMag(counter.mag))), FALSE)
    ELSE IF list = <<>> THEN Popped(list, <<>>, TRUE)
    ELSE Popped(RemoveFirst(list), RBulkString_encode(Head(list)), FALSE)

LPop_vec_run(buffer, db) ==
    IF buffer = <<>> THEN Out(db, Panic)
    ELSE LET key   == Head(buffer)
             count == LPop_parse_count(RemoveFirst(buffer))
         IN  IF ~count.ok THEN Out(db, count.err)
             ELSE IF ~Exists(db, key) THEN Out(db, Ok(RBulkString_encode(NIL)))
             ELSE IF db[key].type # "List"
             THEN Out(db, Err("ERR", "key provided is not from strings"))
             ELSE LET popped == LPop_fill_list(db[key].list, count.counter)
                  IN  Out(Database_insert(db, key, ListV(popped.list)),
                          IF popped.panic THEN Panic ELSE Ok(popped.reply))

(***************************************************************************)
(* LRANGE                                                                  *)
(***************************************************************************)
NumLess(a, b) ==
    IF a.neg # b.neg THEN a.neg
    ELSE IF a.neg THEN MagLess(b.mag, a.mag)
    ELSE MagLess(a.mag, b.mag)

IntOfNum(a) == IF a.neg THEN 0 - NatOfMag(a.mag) ELSE NatOfMag(a.mag)

get_as_integer(value) == ParseISize(value)

\* format!("{}) \"{}\"", j, elem)
RangeEntry(j, elem) == NumText(NumOfNat(j)) \o <<")", " ", "\"">> \o elem \o <<"\"">>

\* a variant in which the entry at stop is left out
get_list_elements_before_stop(start, stop, values_list) ==
    LET upto == IF stop < Len(values_list) THEN stop ELSE Len(values_list)
        n    == IF start + 1 > 0 /\ upto > start THEN upto - start ELSE 0
    IN  Ok(RArray_encode([j \in 1..n |-> RangeEntry(j, values_list[start + j])]))

\* start and stop are positions counted from 0
get_list_elements_in_range(start, stop, values_list) ==
    LET upto == IF stop + 1 < Len(values_list) THEN stop + 1 ELSE Len(values_list)
        n    == IF start + 1 > 0 /\ upto > start THEN upto - start ELSE 0
    IN  Ok(RArray_encode([j \in 1..n |-> RangeEntry(j, values_list[start + j])]))

find_elements_in_range(values_list, buffer) ==
    IF buffer = <<>> THEN wrong_number_of_arguments
    ELSE IF ~get_as_integer(Last(buffer)).ok THEN Panic
    ELSE IF PopBack(buffer) = <<>> THEN wrong_number_of_arguments
    ELSE IF ~get_as_integer(Last(PopBack(buffer))).ok THEN Panic
    ELSE IF PopBack(PopBack(buffer)) # <<>> THEN wrong_number_of_arguments
    ELSE LET stop0  == get_as_integer(Last(buffer)).num
             start0 == get_as_integer(Last(PopBack(buffer))).num
             len    == NumOfNat(Len(values_list))
             start  == IF start0.neg THEN NumAdd(start0, len) ELSE start0
             stop   == IF stop0.neg THEN NumAdd(stop0, len) ELSE stop0
         IN  IF ~NumLess(start, len) \/ NumLess(stop, start) \/ NumLess(stop, NumNeg(len))
             THEN Ok(RSimpleString_encode(EMPTY_LIST_OR_SET))
             ELSE get_list_elements_in_range(
                      IF start.neg THEN 0 ELSE IntOfNum(start),
                      IF ~NumLess(stop, len) THEN Len(values_list) - 1 ELSE IntOfNum(stop),
                      values_list)

Lrange_run(buffer, db) ==
    IF buffer = <<>> THEN Out(db, wrong_number_of_arguments)
    ELSE LET key == Head(buffer)
         IN  IF ~Exists(db, key) THEN Out(db, Ok(RSimpleString_encode(EMPTY_LIST_OR_SET)))
             ELSE IF db[key].type # "List"
             THEN Out(db, Err("WRONGTYPE",
                              "Operation against a key holding the wrong kind of value"))
             ELSE Out(db, find_elements_in_range(db[key].list, RemoveFirst(buffer)))

(***************************************************************************)
(* Sets: SADD, SREM, SISMEMBER                                             *)
(***************************************************************************)
\* a variant that counts every member of the buffer as an insertion
insert_in_set_counts_all(members, item) ==
    [set |-> item \cup {members[i] : i \in 1..Len(members)}, count |-> Len(members)]

\* a variant that counts every member of the buffer as a removal
remove_from_set_counts_all(members, item) ==
    [set |-> item \ {members[i] : i \in 1..Len(members)}, count |-> Len(members)]

RECURSIVE insert_in_set(_, _)
\* the members of the buffer inserted one by one: the set, and how many
\* insertions found the member absent
insert_in_set(members, item) ==
    IF members = <<>> THEN [set |-> item, count |-> 0]
    ELSE LET rest == insert_in_set(Tail(members), item \cup {Head(members)})
         IN  [set |-> rest.set,
              count |-> rest.count + (IF Head(members) \in item THEN 0 ELSE 1)]

RECURSIVE remove_from_set(_, _)
remove_from_set(members, item) ==
    IF members = <<>> THEN [set |-> item, count |-> 0]
    ELSE LET rest == remove_from_set(Tail(members), item \ {Head(members)})
         IN  [set |-> rest.set,
              count |-> rest.count + (IF Head(members) \in item THEN 1 ELSE 0)]

\* a variant in which SADD on a key of another type replaces the value
Sadd_run_coerce(buffer_vec, db) ==
    IF Len(buffer_vec) < 2 THEN Out(db, wrong_number_of_arguments)
    ELSE LET key == buffer_vec[1]
             old == IF Exists(db, key) /\ db[key].type = "Set" THEN db[key].set ELSE {}
             ins == insert_in_set(Tail(buffer_vec), old)
         IN  Out(Database_insert(db, key, SetV(ins.set)),
                 Ok(RInteger_encode(NumOfNat(ins.count))))

Sadd_run(buffer_vec, db) ==
    IF Len(buffer_vec) < 2 THEN Out(db, wrong_number_of_arguments)
    ELSE LET key == buffer_vec[1]
         IN  IF Exists(db, key) THEN
                 IF db[key].type = "Set" THEN
                     LET ins == insert_in_set(Tail(buffer_vec), db[key].set)
                     IN  Out(Database_insert(db, key, SetV(ins.set)),
                             Ok(RInteger_encode(NumOfNat(ins.count))))
                 ELSE Out(db, err_wrongtype)
             ELSE LET ins == insert_in_set(Tail(buffer_vec), {})
                  IN  Out(Database_insert(db, key, SetV(ins.set)),
                          Ok(RInteger_encode(NumOfNat(ins.count))))

\* a variant that deletes the key of a set left without members
Srem_run_drops_empty(buffer, db) ==
    IF Len(buffer) < 2 THEN Out(db, wrong_number_of_arguments)
    ELSE LET key == buffer[1]
         IN  IF Exists(db, key) THEN
                 IF db[key].type = "Set" THEN
                     LET del == remove_from_set(Tail(buffer), db[key].set)
                     IN  Out(IF del.set = {} THEN Database_remove(db, key)
                             ELSE Database_insert(db, key, SetV(del.set)),
                             Ok(RInteger_encode(NumOfNat(del.count))))
                 ELSE Out(db, err_wrongtype)
             ELSE Out(db, Ok(RInteger_encode(NumOfNat(0))))

Srem_run(buffer, db) ==
    IF Len(buffer) < 2 THEN Out(db, wrong_number_of_arguments)
    ELSE LET key == buffer[1]
         IN  IF Exists(db, key) THEN
                 IF db[key].type = "Set" THEN
                     LET del == remove_from_set(Tail(buffer), db[key].set)
                     IN  Out(Database_insert(db, key, SetV(del.set)),
                             Ok(RInteger_encode(NumOfNat(del.count))))
                 ELSE Out(db, err_wrongtype)
             ELSE Out(db, Ok(RInteger_encode(NumOfNat(0))))

\* a variant that replies 1 whenever the key holds a set with some member
Sismember_run_nonempty(buffer_vec, db) ==
    IF Len(buffer_vec) # 3 THEN Out(db, wrong_number_of_arguments)
    ELSE LET key == buffer_vec[2]
         IN  IF Exists(db, key) THEN
                 IF db[key].type = "Set" THEN
                     Out(db, Ok(RInteger_encode(NumOfNat(
                                    IF db[key].set # {} THEN 1 ELSE 0))))
                 ELSE Out(db, err_wrongtype)
             ELSE Out(db, Ok(RInteger_encode(NumOfNat(0))))

\* the buffer holds the command name, the key and the member
Sismember_run(buffer_vec, db) ==
    IF Len(buffer_vec) # 3 THEN Out(db, wrong_number_of_arguments)
    ELSE LET key    == buffer_vec[2]
             member == buffer_vec[3]
         IN  IF Exists(db, key) THEN
                 IF db[key].type = "Set" THEN
                     Out(db, Ok(RInteger_encode(NumOfNat(
                                    IF member \in db[key].set THEN 1 ELSE 0))))
                 ELSE Out(db, err_wrongtype)
             ELSE Out(db, Ok(RInteger_encode(NumOfNat(0))))

(***************************************************************************)
(* Bounds and inputs                                                       *)
(***************************************************************************)
\* commands in one run of the store
MaxOps == 2

\* commands in one run made of APPEND commands only
\* the longest run of LRANGE commands over all pairs of index arguments
MaxRanges == 1

MaxAppends == 4

K1 == <<"k", "1">>
K2 == <<"k", "2">>
Keys == {K1, K2}
K3 == <<"k", "3">>

tA == <<"a">>
tB == <<"b">>
tC == <<"c">>
tOne == <<"1">>
tMax == NumText(Num(FALSE, ISIZE_MAX_MAG))
tMin == NumText(Num(TRUE, ISIZE_MIN_MAG))

\* the text "(nil)" is a value like any other
AppendValues == {tA, tOne, <<>>, NIL}

IncrValues == {tOne, <<"-", "3">>, <<"x">>}

PushValues == {<<tA>>, <<tA, tB>>}

PopCounts == {<<>>, <<<<"2">>>>, <<<<"0">>>>, <<<<"x">>>>}

RangeIndexes ==
    {<<<<"0">>, <<"-", "1">>>>, <<<<"1">>, <<"0">>>>, <<<<"-", "3">>, <<"1">>>>,
     <<<<"0">>, <<"x">>>>}

MemberValues == {<<tA>>, <<tA, tB>>}

Members == {tA, tB}

\* the texts a key holds at the start of a run of INCRBY and DECRBY commands
NumericTexts ==
    {<<"1", "0">>, <<"-", "7">>, <<"+", "5">>, <<"0", "0", "7">>, <<"-", "0">>,
     tMax, tMin, <<"a", "b">>, <<>>}

(***************************************************************************)
(* The store's commands                                                    *)
(***************************************************************************)
Ran(cmd, buffer, out) == [cmd |-> cmd, buffer |-> buffer, res |-> out.res, db |-> out.db]

Budget(h) ==
    IF \A i \in 1..Len(h) : h[i].cmd = "APPEND" THEN MaxAppends ELSE MaxOps

\* the handler of cmd ran on buffer and returned out; the budget of a run
\* depends on the names of its commands only
Step(cmd, buffer, out) ==
    /\ Len(hist) < Budget(Append(hist, [cmd |-> cmd]))
    /\ hist' = Append(hist, Ran(cmd, buffer, out))
    /\ database' = out.db
    /\ UNCHANGED <<db0, overflow_checks, client, clast, expiry, server, threads, mutex>>

APPEND ==
    \E key \in Keys, value \in AppendValues :
        Step("APPEND", <<key, value>>, Append_run(<<key, value>>, database))

INCRBY ==
    \E key \in Keys, n \in IncrValues, creation \in Creations :
        Step("INCRBY", <<key, n>>,
             Incrby_run(<<key, n>>, database, overflow_checks, creation))

DECRBY ==
    \E key \in Keys, n \in IncrValues, creation \in Creations :
        Step("DECRBY", <<key, n>>,
             Decrby_run(<<key, n>>, database, overflow_checks, creation))

GETDEL ==
    \E key \in Keys :
        Step("GETDEL", <<key>>, Getdel_run(<<key>>, database))

LPUSH ==
    \E key \in Keys, values \in PushValues :
        Step("LPUSH", <<key>> \o values, LPush_run(<<key>> \o values, database))

RPUSH ==
    \E key \in Keys, values \in PushValues :
        Step("RPUSH", <<key>> \o values, RPush_run(<<key>> \o values, database))

LPUSHX ==
    \E key \in Keys, values \in PushValues :
        Step("LPUSHX", <<key>> \o values, LPushx_run(<<key>> \o values, database))

RPUSHX ==
    \E key \in Keys, values \in PushValues :
        Step("RPUSHX", <<key>> \o values, RPushx_run(<<key>> \o values, database))

LPOP ==
    \E key \in Keys, count \in PopCounts :
        Step("LPOP", <<key>> \o count, LPop_run(<<key>> \o count, database))

RPOP ==
    \E key \in Keys, count \in PopCounts :
        Step("RPOP", <<key>> \o count, RPop_run(<<key>> \o count, database))

LRANGE ==
    \E key \in Keys, range \in RangeIndexes :
        Step("LRANGE", <<key>> \o range, Lrange_run(<<key>> \o range, database))

SADD ==
    \E key \in Keys, members \in MemberValues :
        Step("SADD", <<key>> \o members, Sadd_run(<<key>> \o members, database))

SREM ==
    \E key \in Keys, members \in MemberValues :
        Step("SREM", <<key>> \o members, Srem_run(<<key>> \o members, database))

SISMEMBER ==
    \E key \in Keys, member \in Members :
        Step("SISMEMBER", <<key, member>>,
             Sismember_run(<<<<"s", "i", "s", "m", "e", "m", "b", "e", "r">>, key, member>>,
                           database))

\* the longest run of set commands on one key
MaxSetOps == 3

\* member lists with repeats, on one key
SetMemberLists == {<<tA>>, <<tA, tB>>, <<tA, tA>>, <<tB, tC, tB>>, <<tC>>}

SetMembers == {tA, tB, tC}

\* the handler of cmd ran on buffer and returned out, in a run of at most max
StepWithin(max, cmd, buffer, out) ==
    /\ Len(hist) < max
    /\ hist' = Append(hist, Ran(cmd, buffer, out))
    /\ database' = out.db
    /\ UNCHANGED <<db0, overflow_checks, client, clast, expiry, server, threads, mutex>>

SADD_members ==
    \E members \in SetMemberLists :
        StepWithin(MaxSetOps, "SADD", <<K1>> \o members,
                   Sadd_run(<<K1>> \o members, database))

SREM_members ==
    \E members \in SetMemberLists :
        StepWithin(MaxSetOps, "SREM", <<K1>> \o members,
                   Srem_run(<<K1>> \o members, database))

SISMEMBER_member ==
    \E member \in SetMembers :
        StepWithin(MaxSetOps, "SISMEMBER", <<K1, member>>,
                   Sismember_run(<<<<"s", "i", "s", "m", "e", "m", "b", "e", "r">>, K1, member>>,
                                 database))

\* the longest run of commands on a vector list
MaxVecOps == 3

VecPushValues == {<<tA>>, <<tB, tC>>, <<tA, tB, tC>>}

VecPopCounts == {<<>>, <<<<"1">>>>, <<<<"2">>>>, <<<<"3">>>>, <<<<"0">>>>}

LPUSH_vec ==
    \E values \in VecPushValues :
        StepWithin(MaxVecOps, "LPUSH", <<K1>> \o values,
                   LPush_vec_run(<<K1>> \o values, database))

LPOP_vec ==
    \E count \in VecPopCounts :
        StepWithin(MaxVecOps, "LPOP", <<K1>> \o count,
                   LPop_vec_run(<<K1>> \o count, database))

\* the counts tried on the lists a run of list commands starts from
ListPopCounts ==
    PopCounts \cup {<<<<"1">>>>, <<<<"3">>>>, <<<<"-", "1">>>>}

LPOP_counts ==
    \E count \in ListPopCounts :
        Step("LPOP", <<K1>> \o count, LPop_run(<<K1>> \o count, database))

RPOP_counts ==
    \E count \in ListPopCounts :
        Step("RPOP", <<K1>> \o count, RPop_run(<<K1>> \o count, database))

\* the index arguments tried on the lists a run of LRANGE starts from: they
\* reach below -len and beyond len for every list of up to three elements
IndexText(x) == NumText(IF x < 0 THEN Num(TRUE, MagOfNat(0 - x)) ELSE NumOfNat(x))

IndexTexts == {IndexText(x) : x \in (0 - 5)..4}

\* LRANGE on the first key, over all pairs of index arguments
LRANGE_indexes ==
    /\ Len(hist) < MaxRanges
    /\ \E start \in IndexTexts, stop \in IndexTexts :
           Step("LRANGE", <<K1, start, stop>>, Lrange_run(<<K1, start, stop>>, database))

(***************************************************************************)
(* CLEAN: the store with its deadlines.  A deadline is "past" or "future";  *)
(* the clock runs on while CLEAN works, so a future deadline may have      *)
(* passed when the key is touched.                                         *)
(***************************************************************************)
Stored(db, deadlines) == [db |-> db, expiry |-> deadlines]

\* lazy expiration: the entry and its deadline are removed
Expire(store, key) ==
    Stored(Database_remove(store.db, key),
           [k \in DOMAIN store.expiry \ {key} |-> store.expiry[k]])

Touched(store, is_expired) == [store |-> store, is_expired |-> is_expired]

\* a variant that finds every key expired, with or without a deadline
Database_touch_any(store, key) == {Touched(Expire(store, key), TRUE)}

\* Database::touch: whether the key was found expired (and removed)
Database_touch(store, key) ==
    IF key \notin DOMAIN store.expiry THEN {Touched(store, FALSE)}
    ELSE IF store.expiry[key] = "past" THEN {Touched(Expire(store, key), TRUE)}
    ELSE {Touched(store, FALSE), Touched(Expire(store, key), TRUE)}

\* Database::get and get_mut: lazy expiration is resolved before the entry is
\* looked up; the stores the call can leave
Database_get(store, key) ==
    IF key \notin DOMAIN store.expiry THEN {store}
    ELSE IF store.expiry[key] = "past" THEN {Expire(store, key)}
    ELSE {store, Expire(store, key)}

\* what a handler leaves on a store with deadlines, and its result
Left(store, res) == [store |-> store, res |-> res]

\* Getdel::run on a store with deadlines: database.get resolves the deadline
\* of the key, database.remove takes the entry with its deadline
Getdel_run_stored(buffer, store) ==
    IF Len(buffer) # 1 THEN {Left(store, Getdel_run(buffer, store.db).res)}
    ELSE {LET out == Getdel_run(buffer, s.db)
          IN  Left(Stored(out.db, [k \in DOMAIN s.expiry \cap DOMAIN out.db |-> s.expiry[k]]),
                   out.res) : s \in Database_get(store, Last(buffer))}

\* LPushx::run on a store with deadlines: database.get_mut resolves the
\* deadline of the key
LPushx_run_stored(buffer, store) ==
    IF buffer = <<>> THEN {Left(store, Panic)}
    ELSE {LET out == LPushx_run(buffer, s.db)
          IN  Left(Stored(out.db, s.expiry), out.res) :
              s \in Database_get(store, Head(buffer))}

\* Database::random_key: any key of the store, none when it is empty
Database_random_key(store) == DOMAIN store.db

RoundOf(store, expired_keys) == [store |-> store, expired_keys |-> expired_keys]

\* the outcomes of k more touches after each of the given outcomes
RECURSIVE touch_keys(_, _)
touch_keys(k, outs) ==
    IF k <= 0 THEN outs
    ELSE touch_keys(k - 1,
             UNION {IF Database_random_key(o.store) = {} THEN {o}
                    ELSE UNION {{RoundOf(t.store,
                                         o.expired_keys + (IF t.is_expired THEN 1 ELSE 0)) :
                                     t \in Database_touch(o.store, key)} :
                                key \in Database_random_key(o.store)} :
                    o \in outs})

touch_n_random_keys(n, store) == touch_keys(n, {RoundOf(store, 0)})

\* isize division rounds towards zero
TruncDiv(a, b) == IF a >= 0 THEN a \div b ELSE 0 - ((0 - a) \div b)

Cleaned(store, rounds, returns) == [store |-> store, rounds |-> rounds, returns |-> returns]

\* the while loop of Clean::run: the counts of its rounds, and whether it
\* returns (a round that finds nothing and is followed by another changes
\* nothing, so the loop never ends)
RECURSIVE clean_rounds(_, _, _)
clean_rounds(iterations, store, rounds) ==
    UNION {IF t.expired_keys <= TruncDiv(iterations, 4)
           THEN {Cleaned(t.store, Append(rounds, t.expired_keys), TRUE)}
           ELSE IF t.expired_keys = 0
           THEN {Cleaned(t.store, Append(rounds, t.expired_keys), FALSE)}
           ELSE clean_rounds(iterations, t.store, Append(rounds, t.expired_keys)) :
           t \in touch_n_random_keys(iterations, store)}

RECURSIVE SumOf(_)
SumOf(counts) == IF counts = <<>> THEN 0 ELSE Head(counts) + SumOf(Tail(counts))

\* the handler never returns
Hang == [kind |-> "Hang", reply |-> <<>>, prefix |-> "", message |-> ""]

CleanOut(store, res, rounds) ==
    [db |-> store.db, expiry |-> store.expiry, res |-> res, rounds |-> rounds]

wrong_number_of_arguments_for_clean ==
    Err("ERR", "wrong number of arguments for 'clean' command")

\* the outcomes of CLEAN, one for each way the random keys can fall
Clean_run(buffer, store) ==
    IF buffer = <<>> THEN {CleanOut(store, wrong_number_of_arguments_for_clean, <<>>)}
    ELSE IF PopBack(buffer) # <<>>
    THEN {CleanOut(store, wrong_number_of_arguments_for_clean, <<>>)}
    ELSE LET iterations == parse_integer(Last(buffer))
         IN  IF ~iterations.ok THEN {CleanOut(store, iterations.err, <<>>)}
             ELSE {CleanOut(o.store,
                            IF o.returns
                            THEN Ok(RInteger_encode(NumOfNat(SumOf(o.rounds))))
                            ELSE Hang,
                            o.rounds) :
                   o \in clean_rounds(IntOfNum(iterations.num), store, <<>>)}

\* the longest run of CLEAN commands
MaxCleans == 2

CleanKeys == {K1, K2, K3}

CleanArgs ==
    {<<"0">>, <<"1">>, <<"2">>, <<"4">>, <<"5">>, <<"-", "1">>, <<"-", "4">>, <<"x">>}

\* a CLEAN that never returns keeps the store locked
Locked == hist # <<>> /\ hist[Len(hist)].res.kind = "Hang"

CLEAN ==
    /\ Len(hist) < MaxCleans
    /\ ~Locked
    /\ \E n \in CleanArgs :
           \E out \in Clean_run(<<n>>, Stored(database, expiry)) :
               /\ hist' = Append(hist, [cmd |-> "CLEAN", buffer |-> <<n>>,
                                        res |-> out.res, db |-> out.db,
                                        pre |-> Stored(database, expiry),
                                        expiry |-> out.expiry, rounds |-> out.rounds])
               /\ database' = out.db
               /\ expiry' = out.expiry
    /\ UNCHANGED <<db0, overflow_checks, client, clast, server, threads, mutex>>

\* time passes: a deadline that lay in the future is now past
Tick ==
    /\ \E key \in DOMAIN expiry :
           /\ expiry[key] = "future"
           /\ expiry' = [expiry EXCEPT ![key] = "past"]
    /\ UNCHANGED <<database, db0, hist, overflow_checks, client, clast, server, threads, mutex>>

(***************************************************************************)
(* SHUTDOWN                                                                *)
(***************************************************************************)
\* the attributes of a running server: the shutdown flag is not set
ServerRedisAttributes_new == [status_listener |-> FALSE]

ServerRedisAttributes_store(attributes, val) == [attributes EXCEPT !.status_listener = val]

\* the result of get_addr: the listen address, or the error of a poisoned lock
Address == [ok |-> TRUE, err |-> Panic]

poisoned_lock == Err("ERR", "poisoned lock")

NoAddress == [ok |-> FALSE, err |-> poisoned_lock]

\* the longest run of SHUTDOWN commands
MaxShutdowns == 4

\* the thread that runs Shutdown::run
ShutdownCaller == "c1"

\* where run stands (pc), what get_addr returned, whether the connection was
\* made, how many connections were tried, and the result
ShutdownThread(pc, addr, connected, connects, res) ==
    [pc |-> pc, addr |-> addr, connected |-> connected, connects |-> connects,
     res |-> res]

NoShutdown == ShutdownThread("idle", Address, FALSE, 0, Panic)

ShutdownStep(next) ==
    /\ threads' = [threads EXCEPT ![ShutdownCaller] = next]
    /\ UNCHANGED <<database, db0, overflow_checks, client, clast, expiry, mutex>>

\* server.store(true): from here on every thread reads the flag as set
ShutdownStore ==
    /\ threads[ShutdownCaller].pc \in {"idle", "done"}
    /\ Len(hist) < MaxShutdowns
    /\ server' = ServerRedisAttributes_store(server, TRUE)
    /\ ShutdownStep([NoShutdown EXCEPT !.pc = "stored"])
    /\ UNCHANGED hist

\* server.get_addr()?: an error leaves run at once
ShutdownGetAddr ==
    /\ threads[ShutdownCaller].pc = "stored"
    /\ \E addr \in {Address, NoAddress} :
           ShutdownStep(IF addr.ok
                        THEN [threads[ShutdownCaller] EXCEPT !.pc = "connect", !.addr = addr]
                        ELSE [threads[ShutdownCaller] EXCEPT !.pc = "return", !.addr = addr,
                                                             !.res = addr.err])
    /\ UNCHANGED <<server, hist>>

\* TcpStream::connect returns, with the connection or with an error
ShutdownConnect ==
    /\ threads[ShutdownCaller].pc = "connect"
    /\ \E connected \in BOOLEAN :
           ShutdownStep(IF connected
                        THEN [threads[ShutdownCaller] EXCEPT !.pc = "return",
                                 !.connected = TRUE, !.connects = 1,
                                 !.res = Ok(RSimpleString_encode(<<"O", "K">>))]
                        ELSE [threads[ShutdownCaller] EXCEPT !.pc = "clear",
                                 !.connected = FALSE, !.connects = 1])
    /\ UNCHANGED <<server, hist>>

\* the arm of a failed connection: server.store(false) and the error
ShutdownClear ==
    /\ threads[ShutdownCaller].pc = "clear"
    /\ server' = ServerRedisAttributes_store(server, FALSE)
    /\ ShutdownStep([threads[ShutdownCaller] EXCEPT !.pc = "return",
                        !.res = Err("ERR", "Error to close the server.")])
    /\ UNCHANGED hist

\* run returns its result
ShutdownReturn ==
    /\ threads[ShutdownCaller].pc = "return"
    /\ hist' = Append(hist, [cmd |-> "SHUTDOWN", buffer |-> <<>>,
                             res |-> threads[ShutdownCaller].res, db |-> database,
                             addr |-> threads[ShutdownCaller].addr,
                             connected |-> threads[ShutdownCaller].connected,
                             connects |-> threads[ShutdownCaller].connects,
                             flag |-> server.status_listener])
    /\ ShutdownStep([threads[ShutdownCaller] EXCEPT !.pc = "done"])
    /\ UNCHANGED server

(***************************************************************************)
(* Client threads that run store handlers on the shared, locked store      *)
(***************************************************************************)
Clients == {"c1", "c2"}

\* the commands one client thread runs
MaxThreadOps == 1

\* the commands the threads are given
ThreadCommands ==
    {[cmd |-> "GETDEL", buffer |-> <<K1>>],
     [cmd |-> "GETDEL", buffer |-> <<K2>>],
     [cmd |-> "LPUSHX", buffer |-> <<K1, tB>>],
     [cmd |-> "LPUSHX", buffer |-> <<K1, tC>>],
     [cmd |-> "CLEAN", buffer |-> <<<<"1">>>>],
     [cmd |-> "CLEAN", buffer |-> <<<<"2">>>>]}

\* a thread: where its handler stands (pc), its command, the store it found
\* when it took the lock, the counts of the rounds of CLEAN, its result
IdleThread ==
    [pc |-> "idle", cmd |-> "", buffer |-> <<>>, pre |-> Stored(<<>>, <<>>),
     rounds |-> <<>>, res |-> Panic, ran |-> 0]

\* a variant that grants the lock whoever holds it
Mutex_lock_unguarded(holder, thread) == [acquired |-> TRUE, holder |-> thread]

\* Mutex::lock: granted when no thread holds the lock, else the caller waits
Mutex_lock(holder, thread) ==
    [acquired |-> holder = "free", holder |-> IF holder = "free" THEN thread ELSE holder]

\* the positions at which a handler works on the store
InHandler == {"locked", "remove", "round", "return"}

ThreadStep(t, next) ==
    /\ threads' = [threads EXCEPT ![t] = next]
    /\ UNCHANGED <<db0, overflow_checks, client, clast, server>>

\* a command arrives for thread t
Receive(t) ==
    /\ threads[t].pc \in {"idle", "done"}
    /\ threads[t].ran < MaxThreadOps
    /\ \E c \in ThreadCommands :
           ThreadStep(t, [IdleThread EXCEPT !.pc = "start", !.cmd = c.cmd,
                                            !.buffer = c.buffer, !.ran = threads[t].ran])
    /\ UNCHANGED <<database, expiry, hist, mutex>>

\* database.lock() at the head of run
Lock(t) ==
    /\ threads[t].pc = "start"
    /\ Mutex_lock(mutex, t).acquired
    /\ mutex' = Mutex_lock(mutex, t).holder
    /\ ThreadStep(t, [threads[t] EXCEPT !.pc = "locked", !.pre = Stored(database, expiry)])
    /\ UNCHANGED <<database, expiry, hist>>

\* Getdel::run up to the look at the type of the value: database.get first
\* resolves the deadline of the key
GetdelCheck(t) ==
    /\ threads[t].pc = "locked" /\ threads[t].cmd = "GETDEL"
    /\ LET buffer == threads[t].buffer
       IN  IF Len(buffer) # 1
           THEN /\ ThreadStep(t, [threads[t] EXCEPT !.pc = "return",
                       !.res = Err("ERR", "wrong number of arguments for 'getdel' command")])
                /\ UNCHANGED <<database, expiry>>
           ELSE \E s \in Database_get(Stored(database, expiry), Last(buffer)) :
                    /\ database' = s.db
                    /\ expiry' = s.expiry
                    /\ IF ~Exists(s.db, Last(buffer))
                       THEN ThreadStep(t, [threads[t] EXCEPT !.pc = "return",
                                              !.res = Ok(RBulkString_encode(NIL))])
                       ELSE IF s.db[Last(buffer)].type # "String"
                       THEN ThreadStep(t, [threads[t] EXCEPT !.pc = "return",
                                !.res = Err("ERR", "key provided is not from string")])
                       ELSE ThreadStep(t, [threads[t] EXCEPT !.pc = "remove"])
    /\ UNCHANGED <<hist, mutex>>

\* Getdel::run from database.remove on
GetdelRemove(t) ==
    /\ threads[t].pc = "remove"
    /\ LET key == Last(threads[t].buffer)
       IN  /\ database' = Database_remove(database, key)
           /\ expiry' = [k \in DOMAIN expiry \ {key} |-> expiry[k]]
           /\ ThreadStep(t, [threads[t] EXCEPT !.pc = "return",
                  !.res = IF ~Exists(database, key) THEN Ok(RBulkString_encode(NIL))
                          ELSE IF database[key].type = "String"
                          THEN Ok(RBulkString_encode(database[key].str))
                          ELSE Err("ERR", "key provided is not from string")])
    /\ UNCHANGED <<hist, mutex>>

\* LPushx::run after the lock: pushx_at on the guarded store
LPushxPush(t) ==
    /\ threads[t].pc = "locked" /\ threads[t].cmd = "LPUSHX"
    /\ \E out \in LPushx_run_stored(threads[t].buffer, Stored(database, expiry)) :
           /\ database' = out.store.db
           /\ expiry' = out.store.expiry
           /\ ThreadStep(t, [threads[t] EXCEPT !.pc = "return", !.res = out.res])
    /\ UNCHANGED <<hist, mutex>>

\* Clean::run from the lock to the loop
CleanParse(t) ==
    /\ threads[t].pc = "locked" /\ threads[t].cmd = "CLEAN"
    /\ LET buffer == threads[t].buffer
       IN  IF buffer = <<>> \/ PopBack(buffer) # <<>>
           THEN ThreadStep(t, [threads[t] EXCEPT !.pc = "return",
                                                 !.res = wrong_number_of_arguments_for_clean])
           ELSE IF ~parse_integer(Last(buffer)).ok
           THEN ThreadStep(t, [threads[t] EXCEPT !.pc = "return",
                                                 !.res = parse_integer(Last(buffer)).err])
           ELSE ThreadStep(t, [threads[t] EXCEPT !.pc = "round"])
    /\ UNCHANGED <<database, expiry, hist, mutex>>

\* one turn of the loop of Clean::run
CleanRound(t) ==
    /\ threads[t].pc = "round"
    /\ LET iterations == IntOfNum(parse_integer(Last(threads[t].buffer)).num)
       IN  \E o \in touch_n_random_keys(iterations, Stored(database, expiry)) :
               LET rounds == Append(threads[t].rounds, o.expired_keys)
               IN  /\ database' = o.store.db
                   /\ expiry' = o.store.expiry
                   /\ IF o.expired_keys <= TruncDiv(iterations, 4)
                      THEN ThreadStep(t, [threads[t] EXCEPT !.pc = "return",
                               !.rounds = rounds,
                               !.res = Ok(RInteger_encode(NumOfNat(SumOf(rounds))))])
                      ELSE ThreadStep(t, [threads[t] EXCEPT !.rounds = rounds])
    /\ UNCHANGED <<hist, mutex>>

\* run returns: the guard is dropped and the result goes to the client
Return(t) ==
    /\ threads[t].pc = "return"
    /\ mutex' = "free"
    /\ hist' = Append(hist, [cmd |-> threads[t].cmd, buffer |-> threads[t].buffer,
                             res |-> threads[t].res, db |-> database,
                             expiry |-> expiry, pre |-> threads[t].pre,
                             rounds |-> threads[t].rounds, thread |-> t])
    /\ ThreadStep(t, [threads[t] EXCEPT !.pc = "done", !.ran = threads[t].ran + 1])
    /\ UNCHANGED <<database, expiry>>

(***************************************************************************)
(* Client fields: status, subscriptions and the handler-map view           *)
(* (the address never changes and is left out)                             *)
(***************************************************************************)
Statuses == {"Executor", "Subscriber", "Monitor", "Dead"}

\* Option<RunnablesMap>: Some(executor()), Some(subscriber()) or None
RunnablesMap_executor == "executor"
RunnablesMap_subscriber == "subscriber"
NoMap == "none"

Status_update_map(status) ==
    IF status = "Executor" THEN RunnablesMap_executor
    ELSE IF status = "Subscriber" THEN RunnablesMap_subscriber
    ELSE NoMap

ClientFields_new ==
    [map |-> RunnablesMap_executor, status |-> "Executor", subscriptions |-> {}]

\* what a call on the client returns: the fields it leaves and its result
Called(fields, ret) == [fields |-> fields, ret |-> ret]

Returned(n) == [kind |-> "Ok", n |-> n]
Failed == [kind |-> "Err", n |-> 0]

update_map(fields) == [fields EXCEPT !.map = Status_update_map(fields.status)]

\* Status::replace: only the status field changes
Status_replace(fields, new_status) == [fields EXCEPT !.status = new_status]

replace_status(fields, new_status) == update_map(Status_replace(fields, new_status))

Range(seq) == {seq[i] : i \in 1..Len(seq)}

\* a variant in which the new channels replace the subscriptions
add_channels_replace(fields, new_channels) ==
    Called([fields EXCEPT !.subscriptions = Range(new_channels)],
           Cardinality(Range(new_channels)))

add_channels(fields, new_channels) ==
    LET subscriptions == fields.subscriptions \cup Range(new_channels)
    IN  Called([fields EXCEPT !.subscriptions = subscriptions],
               Cardinality(subscriptions))

\* a variant in which no channel is removed
remove_channels_keep(fields, new_channels) ==
    Called(fields, Cardinality(fields.subscriptions))

remove_channels(fields, new_channels) ==
    LET subscriptions == fields.subscriptions \ Range(new_channels)
    IN  Called([fields EXCEPT !.subscriptions = subscriptions],
               Cardinality(subscriptions))

as_case_executor(fields, channels) ==
    LET added == add_channels(fields, channels)
    IN  Called(replace_status(added.fields, "Subscriber"), added.ret)

as_case_subscriber(fields, channels) == add_channels(fields, channels)

add_subscriptions(fields, channels) ==
    IF fields.status = "Executor"
    THEN LET r == as_case_executor(fields, channels) IN Called(r.fields, Returned(r.ret))
    ELSE IF fields.status = "Subscriber"
    THEN LET r == as_case_subscriber(fields, channels) IN Called(r.fields, Returned(r.ret))
    ELSE Called(fields, Failed)

rs_case_subscriber(fields, channels) ==
    IF channels = <<>>
    THEN LET cleared == [Status_replace(fields, "Executor") EXCEPT !.subscriptions = {}]
         IN  Called(cleared, Cardinality(cleared.subscriptions))
    ELSE LET removed == remove_channels(fields, channels).fields
             after   == IF removed.subscriptions = {}
                        THEN replace_status(removed, "Executor")
                        ELSE removed
         IN  Called(after, Cardinality(after.subscriptions))

remove_subscriptions(fields, channels) ==
    IF fields.status = "Executor" THEN Called(fields, Returned(0))
    ELSE IF fields.status = "Subscriber"
    THEN LET r == rs_case_subscriber(fields, channels) IN Called(r.fields, Returned(r.ret))
    ELSE Called(fields, Failed)

\* the commands each view holds a handler for
SubscriberView == {"subscribe", "unsubscribe", "ping", "quit", "pubsub"}

ExecutorView ==
    SubscriberView \cup {"get", "append", "lpush", "sadd", "publish", "monitor"}

RunnablesMap_contains_key(map, command) ==
    IF map = RunnablesMap_executor THEN command \in ExecutorView
    ELSE command \in SubscriberView

\* RunnablesMap::get: the handler registered under the name, if any (an
\* Option, here a sequence of at most one handler name)
RunnablesMap_get(map, command) ==
    IF RunnablesMap_contains_key(map, command) THEN <<command>> ELSE <<>>

\* results of the calls that only read the fields
Allowed == [kind |-> "Ok"]

Denied(error) == [kind |-> "Err", error |-> error]

Reviewed(handler) == [kind |-> "Ok", handler |-> handler]

Aborted == [kind |-> "Panic"]

\* a variant in which a Subscriber may run every command
is_allowed_to_all(fields, command) ==
    IF fields.status \in {"Executor", "Subscriber"} THEN Allowed
    ELSE Denied("not_valid_monitor")

is_allowed_to(fields, command) ==
    IF fields.status = "Executor" THEN Allowed
    ELSE IF fields.status = "Subscriber"
    THEN IF fields.map = NoMap THEN Denied("broken_state")
         ELSE IF RunnablesMap_contains_key(fields.map, command) THEN Allowed
         ELSE Denied("not_valid_pubsub")
    ELSE Denied("not_valid_monitor")

\* Some(map.get(name)).ok_or_else(..): the Some is never turned into an error
rc_case_subscriber(fields, command) ==
    IF fields.map = NoMap THEN Denied("broken_state")
    ELSE IF command = <<>> THEN Aborted
    ELSE Reviewed(RunnablesMap_get(fields.map, command[1]))

rc_case_executor(fields, command) ==
    IF fields.map = NoMap THEN Denied("broken_state")
    ELSE IF command = <<>> THEN Aborted
    ELSE Reviewed(RunnablesMap_get(fields.map, command[1]))

review_command(fields, command) ==
    IF fields.status = "Executor" THEN rc_case_executor(fields, command)
    ELSE IF fields.status = "Subscriber" THEN rc_case_subscriber(fields, command)
    ELSE IF fields.status = "Monitor" THEN Denied("not_valid_monitor")
    ELSE Aborted

CommandNames == {"subscribe", "ping", "get", "lpush", "flushdb"}

CommandVectors == {<<c>> : c \in CommandNames} \cup {<<"get", "key">>}

Channels == {"telefe", "trece", "martina"}

ChannelLists ==
    {<<>>, <<"telefe">>, <<"trece">>, <<"telefe", "trece">>, <<"trece", "trece">>,
     <<"telefe", "trece", "martina">>}

NoCall == [op |-> "new", channels |-> <<>>, status |-> "Executor",
           pre |-> ClientFields_new, ret |-> Returned(0)]

\* a call on the client: its arguments, the fields before it, its result
Call(op, channels, status, out) ==
    /\ clast' = [op |-> op, channels |-> channels, status |-> status,
                 pre |-> client, ret |-> out.ret]
    /\ client' = out.fields
    /\ UNCHANGED <<database, db0, hist, overflow_checks, expiry, server, threads, mutex>>

AddSubscriptions ==
    \E channels \in ChannelLists :
        Call("add_subscriptions", channels, client.status,
             add_subscriptions(client, channels))

RemoveSubscriptions ==
    \E channels \in ChannelLists :
        Call("remove_subscriptions", channels, client.status,
             remove_subscriptions(client, channels))

ReplaceStatus ==
    \E new_status \in Statuses :
        Call("replace_status", <<>>, new_status,
             Called(replace_status(client, new_status), Returned(0)))

\* is_allowed_to and review_command take &self: the fields are left as found
IsAllowedTo ==
    \E command \in CommandNames :
        Call("is_allowed_to", <<command>>, client.status,
             Called(client, is_allowed_to(client, command)))

ReviewCommand ==
    \E command \in CommandVectors :
        Call("review_command", command, client.status,
             Called(client, review_command(client, command)))

(***************************************************************************)
(* Specifications                                                          *)
(***************************************************************************)
\* the stores over the given keys whose values are texts of the given set
StoresOf(keys, texts) ==
    UNION {[present -> {StringV(t) : t \in texts}] : present \in SUBSET keys}

InitServer == server = ServerRedisAttributes_new

\* no client thread has a command
InitThreads ==
    /\ threads = <<>>
    /\ mutex = "free"

InitClient ==
    /\ client = ClientFields_new
    /\ clast = NoCall

\* an empty store and a new client
Init ==
    /\ database = Database_new
    /\ db0 = database
    /\ hist = <<>>
    /\ overflow_checks \in BOOLEAN
    /\ expiry = <<>>
    /\ InitClient
    /\ InitServer
    /\ InitThreads

\* a store whose first key holds any of the numeric texts (or is absent)
InitNumeric ==
    /\ database \in StoresOf({K1}, NumericTexts)
    /\ db0 = database
    /\ hist = <<>>
    /\ overflow_checks \in BOOLEAN
    /\ expiry = <<>>
    /\ InitClient
    /\ InitServer
    /\ InitThreads

\* the values the first key holds at the start of a run of list commands
ListValues ==
    {StringV(tA), SetV({tA}), ListV(<<tA>>), ListV(<<tA, tB>>), ListV(<<tA, tB, tC>>),
     ListV(<<NIL, tA>>)}

\* a store whose first key holds a list of up to three elements, or a
\* string, or a set, or is absent
InitLists ==
    /\ database \in UNION {[present -> ListValues] : present \in SUBSET {K1}}
    /\ db0 = database
    /\ hist = <<>>
    /\ overflow_checks \in BOOLEAN
    /\ expiry = <<>>
    /\ InitClient
    /\ InitServer
    /\ InitThreads

Next ==
    \/ APPEND
    \/ INCRBY
    \/ DECRBY
    \/ GETDEL
    \/ LPUSH
    \/ RPUSH
    \/ LPUSHX
    \/ RPUSHX
    \/ LPOP
    \/ RPOP
    \/ LRANGE
    \/ SADD
    \/ SREM
    \/ SISMEMBER

Spec == Init /\ [][Next]_vars

NextNumeric == INCRBY \/ DECRBY

SpecNumeric == InitNumeric /\ [][NextNumeric]_vars

\* the lists the first key holds at the start of a run of LRANGE commands
RangeLists == {<<>>, <<tA>>, <<tA, tB>>, <<tA, tB, tC>>}

InitRange ==
    /\ database \in UNION {[present -> {ListV(l) : l \in RangeLists}] :
                              present \in SUBSET {K1}}
    /\ db0 = database
    /\ hist = <<>>
    /\ overflow_checks \in BOOLEAN
    /\ expiry = <<>>
    /\ InitClient
    /\ InitServer
    /\ InitThreads

NextRange == LRANGE_indexes

SpecRange == InitRange /\ [][NextRange]_vars

\* a store of up to three string keys, each without a deadline or with a
\* deadline that is past or still in the future
InitClean ==
    /\ database \in UNION {[present -> {StringV(tA)}] : present \in SUBSET CleanKeys}
    /\ expiry \in UNION {[timed -> {"past", "future"}] : timed \in SUBSET DOMAIN database}
    /\ db0 = database
    /\ hist = <<>>
    /\ overflow_checks \in BOOLEAN
    /\ InitClient
    /\ InitServer
    /\ InitThreads

NextClean == CLEAN \/ Tick

SpecClean == InitClean /\ [][NextClean]_vars

\* runs of set commands on one key, from the empty store
NextSets == SADD_members \/ SREM_members \/ SISMEMBER_member

SpecSets == Init /\ [][NextSets]_vars

\* a running server and the thread that will run SHUTDOWN
InitShutdown ==
    /\ database = Database_new
    /\ db0 = database
    /\ hist = <<>>
    /\ overflow_checks \in BOOLEAN
    /\ expiry = <<>>
    /\ InitClient
    /\ InitServer
    /\ threads = (ShutdownCaller :> NoShutdown)
    /\ mutex = "free"

\* runs of SHUTDOWN, statement by statement
NextShutdown ==
    \/ ShutdownStore
    \/ ShutdownGetAddr
    \/ ShutdownConnect
    \/ ShutdownClear
    \/ ShutdownReturn

SpecShutdown == InitShutdown /\ [][NextShutdown]_vars

\* runs of the vector handlers on the first key, from the lists and other
\* values of InitLists
NextVecLists == LPUSH_vec \/ LPOP_vec

SpecVecLists == InitLists /\ [][NextVecLists]_vars

\* pops and removals that can empty the container at the first key, and
\* commands of the other types on that key
NextEmptied ==
    \/ LPOP_counts
    \/ RPOP_counts
    \/ SREM
    \/ SADD
    \/ LPUSH
    \/ GETDEL

SpecEmptied == InitLists /\ [][NextEmptied]_vars

\* the first key absent, a string or a list; the second key absent or a
\* string whose deadline has passed; two client threads without a command
ThreadStores ==
    UNION {[present -> {StringV(tA)}] : present \in SUBSET {K2}}
    \cup {(K1 :> v) @@ d : v \in {StringV(tA), ListV(<<tA>>)},
                           d \in UNION {[present -> {StringV(tA)}] : present \in SUBSET {K2}}}

ThreadDeadlines(db) == [k \in DOMAIN db \cap {K2} |-> "past"]

InitConcurrent ==
    /\ database \in ThreadStores
    /\ expiry = ThreadDeadlines(database)
    /\ db0 = database
    /\ hist = <<>>
    /\ overflow_checks \in BOOLEAN
    /\ InitClient
    /\ InitServer
    /\ threads = [t \in Clients |-> IdleThread]
    /\ mutex = "free"

NextConcurrent ==
    \E t \in Clients :
        \/ Receive(t)
        \/ Lock(t)
        \/ GetdelCheck(t)
        \/ GetdelRemove(t)
        \/ LPushxPush(t)
        \/ CleanParse(t)
        \/ CleanRound(t)
        \/ Return(t)

SpecConcurrent == InitConcurrent /\ [][NextConcurrent]_vars

NextLists ==
    \/ LPUSH
    \/ RPUSH
    \/ LPUSHX
    \/ RPUSHX
    \/ LPOP_counts
    \/ RPOP_counts

SpecLists == InitLists /\ [][NextLists]_vars

NextClient ==
    \/ AddSubscriptions
    \/ RemoveSubscriptions
    \/ ReplaceStatus
    \/ IsAllowedTo
    \/ ReviewCommand

SpecClient == Init /\ [][NextClient]_vars

\* a new client on which only subscriptions are added and removed
NextSubscriptions == AddSubscriptions \/ RemoveSubscriptions

SpecSubscriptions == Init /\ [][NextSubscriptions]_vars

(***************************************************************************)
(* Properties of the store commands, stated over the run recorded in hist  *)
(***************************************************************************)
Steps == 1..Len(hist)

\* the store the i-th command of the run found
Pre(i) == IF i = 1 THEN db0 ELSE hist[i - 1].db

\* the key the i-th command of the run names
KeyOf(i) == hist[i].buffer[1]

\* commands i..j are all APPEND on key k
AppendRun(i, j, k) ==
    \A m \in i..j : hist[m].cmd = "APPEND" /\ Len(hist[m].buffer) = 2
                    /\ hist[m].buffer[1] = k

\* the text key k held before command i ("" when absent)
BaseText(i, k) == IF Exists(Pre(i), k) THEN Pre(i)[k].str ELSE <<>>

\* the texts appended by commands i..j, in order
Appended(i, j) == Concat([x \in 1..(j - i + 1) |-> hist[i + x - 1].buffer[2]])

\* C1: consecutive APPENDs on one key that is absent or holds a string s
\* leave the string s v1 ... vm, and each APPEND replies with the length of
\* the string it has just produced.
C1_AppendConcatenates ==
    \A i \in Steps, j \in Steps, k \in Keys :
        (/\ i <= j
         /\ AppendRun(i, j, k)
         /\ (Exists(Pre(i), k) => Pre(i)[k].type = "String"))
        => LET text == BaseText(i, k) \o Appended(i, j)
           IN  /\ Exists(hist[j].db, k)
               /\ hist[j].db[k] = StringV(text)
               /\ hist[j].res = Ok(RInteger_encode(NumOfNat(Len(text))))

\* three APPENDs of non-empty texts on the first key have been run
C1_Witness ==
    /\ Len(hist) >= 3
    /\ AppendRun(1, 3, K1)
    /\ \A m \in 1..3 : hist[m].buffer[2] # <<>>
    /\ hist[3].db[K1].str = hist[1].buffer[2] \o hist[2].buffer[2] \o hist[3].buffer[2]
    /\ hist[3].res = Ok(<<":", "3">> \o CRLF)

\* command i is INCRBY k n and command i+1 is DECRBY k n with the same k, n
IncrDecrPair(i) ==
    /\ i + 1 <= Len(hist)
    /\ hist[i].cmd = "INCRBY"
    /\ hist[i + 1].cmd = "DECRBY"
    /\ Len(hist[i].buffer) = 2
    /\ hist[i + 1].buffer = hist[i].buffer

\* the integer key k held before command i (0 when absent)
PriorNum(i, k) == IF Exists(Pre(i), k) THEN ParseISize(Pre(i)[k].str).num
                  ELSE NumOfNat(0)

\* the pair starting at i works on a 64-bit integer v and an amount n with
\* v + n in 64-bit range
PairInRange(i) ==
    LET k == KeyOf(i)
        n == ParseISize(hist[i].buffer[2])
    IN  /\ n.ok
        /\ Exists(Pre(i), k) => (Pre(i)[k].type = "String" /\ ParseISize(Pre(i)[k].str).ok)
        /\ InISizeRange(NumAdd(PriorNum(i, k), n.num))

\* C2 as stated: INCRBY k n followed by DECRBY k n, with v + n in range,
\* leaves under k exactly the text it held before ("0" when k was absent).
C2_PairRestoresPriorText ==
    \A i \in Steps :
        (IncrDecrPair(i) /\ PairInRange(i))
        => LET k == KeyOf(i)
           IN  /\ Exists(hist[i + 1].db, k)
               /\ hist[i + 1].db[k] =
                     (IF Exists(Pre(i), k) THEN Pre(i)[k] ELSE StringV(<<"0">>))

\* C2: INCRBY k n followed by DECRBY k n, with v + n in range, leaves under
\* k the canonical decimal text of the integer v it held before ("0" when k
\* was absent), and both commands reply with the integer they stored.
C2_PairRestoresValue ==
    \A i \in Steps :
        (IncrDecrPair(i) /\ PairInRange(i))
        => LET k == KeyOf(i)
               v == PriorNum(i, k)
               n == ParseISize(hist[i].buffer[2]).num
           IN  /\ Exists(hist[i + 1].db, k)
               /\ hist[i + 1].db[k] = StringV(NumText(v))
               /\ hist[i].res = Ok(RInteger_encode(NumAdd(v, n)))
               /\ hist[i + 1].res = Ok(RInteger_encode(v))

\* the pair has been run on a key whose text "007" was not canonical
C2_Witness ==
    /\ IncrDecrPair(1)
    /\ PairInRange(1)
    /\ KeyOf(1) = K1
    /\ db0 = (K1 :> StringV(<<"0", "0", "7">>))
    /\ hist[1].buffer[2] = <<"-", "3">>
    /\ hist[1].db[K1].str = <<"4">>
    /\ database[K1].str = <<"7">>

\* command i is INCRBY or DECRBY on integer operands whose exact result is
\* outside the 64-bit signed range
Overflows(i) ==
    LET k == KeyOf(i)
        n == ParseISize(hist[i].buffer[2])
    IN  /\ hist[i].cmd \in {"INCRBY", "DECRBY"}
        /\ Len(hist[i].buffer) = 2
        /\ n.ok
        /\ Exists(Pre(i), k) => (Pre(i)[k].type = "String" /\ ParseISize(Pre(i)[k].str).ok)
        /\ ~InISizeRange(IF hist[i].cmd = "INCRBY"
                         THEN NumAdd(PriorNum(i, k), n.num)
                         ELSE NumSub(PriorNum(i, k), n.num))

\* C3: an INCRBY or DECRBY whose result would leave the 64-bit signed range
\* fails with 'ERR value is not an integer or out of range' and leaves the
\* store unchanged; it never wraps and never aborts.
C3_OverflowIsAnError ==
    \A i \in Steps :
        Overflows(i)
        => /\ hist[i].res = Err("ERR", "value is not an integer or out of range")
           /\ hist[i].db = Pre(i)

StringCommands == {"APPEND", "INCRBY", "DECRBY", "GETDEL"}

ListCommands == {"LPUSH", "RPUSH", "LPUSHX", "RPUSHX", "LPOP", "RPOP", "LRANGE"}

SetCommands == {"SADD", "SREM", "SISMEMBER"}

\* the variant a command expects under its key
Expected(cmd) ==
    IF cmd \in StringCommands THEN "String"
    ELSE IF cmd \in ListCommands THEN "List"
    ELSE "Set"

\* command i found under its key a value of one of the given variants
Found(i, types) == Exists(Pre(i), KeyOf(i)) /\ Pre(i)[KeyOf(i)].type \in types

\* C4: no command coerces a value.  A typed command whose key holds another
\* variant than the one it expects fails and leaves the whole store
\* unchanged, and every key that survives a command keeps its variant.
C4_NoCoercion ==
    \A i \in Steps :
        /\ Found(i, {"String", "List", "Set"} \ {Expected(hist[i].cmd)})
           => (hist[i].res.kind = "Err" /\ hist[i].db = Pre(i))
        /\ \A k \in DOMAIN Pre(i) \cap DOMAIN hist[i].db :
               hist[i].db[k].type = Pre(i)[k].type

\* a push has been run on a key that holds a set, and was refused
C4_Witness ==
    /\ Len(hist) = 2
    /\ hist[1].cmd = "SADD"
    /\ hist[2].cmd = "RPUSH"
    /\ KeyOf(2) = KeyOf(1)
    /\ hist[2].res.kind = "Err"
    /\ database[KeyOf(2)].type = "Set"

\* C5: every list command applied to a key that holds a string or a set
\* fails with 'WRONGTYPE Operation against a key holding the wrong kind of
\* value'.
C5_ListCommandsWrongtype ==
    \A i \in Steps :
        (hist[i].cmd \in ListCommands /\ Found(i, {"String", "Set"}))
        => hist[i].res =
              Err("WRONGTYPE", "Operation against a key holding the wrong kind of value")

\* C6: a string command (INCRBY, DECRBY, APPEND, GETDEL) applied to a key
\* that holds a list or a set fails with 'WRONGTYPE Operation against a key
\* holding the wrong kind of value'.
C6_StringCommandsWrongtype ==
    \A i \in Steps :
        (hist[i].cmd \in StringCommands /\ Found(i, {"List", "Set"}))
        => hist[i].res =
              Err("WRONGTYPE", "Operation against a key holding the wrong kind of value")

\* C7: SADD, SREM and SISMEMBER applied to a key that holds a string or a
\* list fail with 'WRONGTYPE Operation against a key holding the wrong kind
\* of value' and leave the value stored at that key unchanged.
C7_SetCommandsWrongtype ==
    \A i \in Steps :
        (hist[i].cmd \in SetCommands /\ Found(i, {"String", "List"}))
        => /\ hist[i].res =
                 Err("WRONGTYPE", "Operation against a key holding the wrong kind of value")
           /\ Exists(hist[i].db, KeyOf(i))
           /\ hist[i].db[KeyOf(i)] = Pre(i)[KeyOf(i)]

\* SADD has been run on a key that holds a list
C7_Witness ==
    /\ Len(hist) = 2
    /\ hist[1].cmd = "LPUSH"
    /\ hist[2].cmd = "SADD"
    /\ KeyOf(2) = KeyOf(1)
    /\ hist[2].res.prefix = "WRONGTYPE"
    /\ database[KeyOf(2)] = hist[1].db[KeyOf(1)]

(***************************************************************************)
(* Properties of the client fields, stated over the last call clast        *)
(***************************************************************************)
\* C8: a new client is an Executor without subscriptions; add_subscriptions
\* on an Executor or a Subscriber leaves a Subscriber whose subscriptions
\* are the union of the previous ones and the given channels.
C8_AddSubscriptions ==
    /\ clast.op = "new"
       => (client.status = "Executor" /\ client.subscriptions = {})
    /\ (clast.op = "add_subscriptions" /\ clast.pre.status \in {"Executor", "Subscriber"})
       => /\ client.status = "Subscriber"
          /\ client.subscriptions = clast.pre.subscriptions \cup Range(clast.channels)

\* a Subscriber has subscribed to a channel it had and to one it had not
C8_Witness ==
    /\ clast.op = "add_subscriptions"
    /\ clast.pre.status = "Subscriber"
    /\ clast.pre.subscriptions \cap Range(clast.channels) # {}
    /\ Range(clast.channels) \ clast.pre.subscriptions # {}
    /\ clast.pre.subscriptions \ Range(clast.channels) # {}
    /\ client.status = "Subscriber"
    /\ Cardinality(client.subscriptions) = 3

\* C9: remove_subscriptions on a Subscriber removes the listed channels
\* (all of them when the list is empty), returns how many remain, and
\* leaves an Executor exactly when none remains, a Subscriber otherwise; on
\* an Executor it returns 0 and changes nothing.
C9_RemoveSubscriptions ==
    clast.op = "remove_subscriptions"
    => /\ clast.pre.status = "Subscriber"
          => /\ client.subscriptions =
                   (IF clast.channels = <<>> THEN {}
                    ELSE clast.pre.subscriptions \ Range(clast.channels))
             /\ clast.ret = Returned(Cardinality(client.subscriptions))
             /\ client.status =
                   (IF client.subscriptions = {} THEN "Executor" ELSE "Subscriber")
       /\ clast.pre.status = "Executor"
          => /\ clast.ret = Returned(0)
             /\ client.status = "Executor"
             /\ client.subscriptions = clast.pre.subscriptions

\* a Subscriber has dropped some of its channels and kept another
C9_Witness ==
    /\ clast.op = "remove_subscriptions"
    /\ clast.pre.status = "Subscriber"
    /\ clast.pre.subscriptions \cap Range(clast.channels) # {}
    /\ client.subscriptions # {}
    /\ client.status = "Subscriber"
    /\ clast.ret = Returned(1)

\* C10: after any sequence of add_subscriptions, remove_subscriptions and
\* replace_status calls the handler-map view of the client is the one its
\* status selects: the executor view for Executor, the subscriber view for
\* Subscriber, none for Monitor and Dead.
C10_ViewMatchesStatus ==
    /\ client.status = "Executor" => client.map = RunnablesMap_executor
    /\ client.status = "Subscriber" => client.map = RunnablesMap_subscriber
    /\ client.status \in {"Monitor", "Dead"} => client.map = NoMap

\* C11: is_allowed_to succeeds for every command on an Executor, on a
\* Subscriber exactly for the commands of the subscriber view, and fails for
\* every command on a Monitor or Dead client; it never changes the fields.
C11_IsAllowedTo ==
    clast.op = "is_allowed_to"
    => LET command == clast.channels[1]
       IN  /\ client = clast.pre
           /\ clast.pre.status = "Executor" => clast.ret.kind = "Ok"
           /\ clast.pre.status = "Subscriber"
              => (clast.ret.kind = "Ok" <=> command \in SubscriberView)
           /\ clast.pre.status = "Subscriber" => clast.ret.kind \in {"Ok", "Err"}
           /\ clast.pre.status \in {"Monitor", "Dead"} => clast.ret.kind = "Err"

\* a Subscriber with a subscription has been refused a store command
C11_Witness ==
    /\ clast.op = "is_allowed_to"
    /\ clast.channels = <<"get">>
    /\ clast.pre.status = "Subscriber"
    /\ clast.pre.subscriptions # {}
    /\ clast.ret = Denied("not_valid_pubsub")

\* C12: on a Subscriber, review_command returns an error for every command
\* that is not in the subscriber view, and returns a handler only for the
\* commands in that view.
C12_ReviewRejectsOutsideView ==
    (clast.op = "review_command" /\ clast.pre.status = "Subscriber")
    => LET command == clast.channels[1]
       IN  /\ command \notin SubscriberView => clast.ret.kind = "Err"
           /\ clast.ret.kind = "Ok"
              => (command \in SubscriberView /\ clast.ret.handler = <<command>>)

\* C13: on a Monitor or Dead client add_subscriptions, remove_subscriptions
\* and review_command each return an error, none aborts, and the status,
\* the subscriptions and the handler-map view are left unchanged.
C13_MonitorDeadFrame ==
    (/\ clast.op \in {"add_subscriptions", "remove_subscriptions", "review_command"}
     /\ clast.pre.status \in {"Monitor", "Dead"})
    => /\ clast.ret.kind = "Err"
       /\ client = clast.pre

\* C14: every command handler returns a reply text or an error value for
\* every argument vector and every store; no handler aborts.
C14_NoHandlerAborts ==
    \A i \in Steps : hist[i].res.kind \in {"Ok", "Err"}

(***************************************************************************)
(* Properties of the list commands                                         *)
(***************************************************************************)
Reverse(s) == [x \in 1..Len(s) |-> s[Len(s) + 1 - x]]

\* the list key k holds in db (empty when k is absent)
ListAt(db, k) == IF Exists(db, k) THEN db[k].list ELSE <<>>

\* the arguments of command i after its key
ArgsOf(i) == Tail(hist[i].buffer)

\* a text of decimal digits that is not zero
NaturalText(t) ==
    /\ t # <<>>
    /\ \A x \in 1..Len(t) : IsDigit(t[x])
    /\ \E x \in 1..Len(t) : t[x] # "0"

\* command i is a pop with a count argument that is a natural number
\* (its value is CountOf(i))
Counted(i) ==
    /\ hist[i].cmd \in {"LPOP", "RPOP"}
    /\ Len(ArgsOf(i)) = 1
    /\ NaturalText(ArgsOf(i)[1])

CountOf(i) == NatOfMag(StripZeros([x \in 1..Len(ArgsOf(i)[1]) |-> DigitOf(ArgsOf(i)[1][x])]))

\* C15: LPUSH/LPUSHX k v1 ... vn on a list L leave [vn, ..., v1] followed
\* by L, RPUSH/RPUSHX leave L followed by [v1, ..., vn]; the reply is the
\* length of the resulting list, and LPUSH/RPUSH create the list when k is
\* absent.
C15_PushOrder ==
    \A i \in Steps :
        LET cmd  == hist[i].cmd
            k    == KeyOf(i)
            L    == ListAt(Pre(i), k)
            new  == IF cmd \in {"LPUSH", "LPUSHX"} THEN Reverse(ArgsOf(i)) \o L
                    ELSE L \o ArgsOf(i)
        IN  (/\ cmd \in {"LPUSH", "RPUSH", "LPUSHX", "RPUSHX"}
             /\ ArgsOf(i) # <<>>
             /\ \/ Found(i, {"List"})
                \/ ~Exists(Pre(i), k) /\ cmd \in {"LPUSH", "RPUSH"})
            => /\ Exists(hist[i].db, k)
               /\ hist[i].db[k] = ListV(new)
               /\ hist[i].res = Ok(RInteger_encode(NumOfNat(Len(new))))

\* two values have been pushed at the head of a list of three
C15_Witness ==
    /\ Len(hist) = 1
    /\ db0 = (K1 :> ListV(<<tA, tB, tC>>))
    /\ hist[1].cmd = "LPUSH"
    /\ hist[1].buffer = <<K1, tA, tB>>
    /\ database[K1].list = <<tB, tA, tA, tB, tC>>
    /\ hist[1].res = Ok(<<":", "5">> \o CRLF)

\* the wire form of a bulk string that holds the text t, of the null bulk,
\* and of an array of bulk strings
BulkString(t) == <<"$">> \o NumText(NumOfNat(Len(t))) \o CRLF \o t \o CRLF

NullBulk == <<"$", "-", "1">> \o CRLF

ArrayOf(ts) ==
    <<"*">> \o NumText(NumOfNat(Len(ts))) \o CRLF
        \o Concat([j \in 1..Len(ts) |-> BulkString(ts[j])])

\* C16: LPOP k without a count on [e1..en], n >= 1, replies with e1 as a
\* bulk string and leaves [e2..en]; LPOP k c with 2 <= c <= n replies with
\* the array [e1..ec] and leaves [ec+1..en]; RPOP does the same from the
\* tail; on an absent key the reply is the null bulk and no key is created.
C16_Pop ==
    \A i \in Steps :
        LET k   == KeyOf(i)
            L   == ListAt(Pre(i), k)
            n   == Len(L)
            top == hist[i].cmd = "LPOP"
        IN  hist[i].cmd \in {"LPOP", "RPOP"}
            => /\ (Found(i, {"List"}) /\ n >= 1 /\ ArgsOf(i) = <<>>)
                  => /\ hist[i].res = Ok(BulkString(IF top THEN L[1] ELSE L[n]))
                     /\ hist[i].db =
                           Database_insert(Pre(i), k,
                               ListV(IF top THEN SubSeq(L, 2, n) ELSE SubSeq(L, 1, n - 1)))
               /\ (Found(i, {"List"}) /\ Counted(i) /\ CountOf(i) \in 2..n)
                  => LET c == CountOf(i)
                     IN  /\ hist[i].res =
                               Ok(ArrayOf(IF top THEN SubSeq(L, 1, c)
                                          ELSE Reverse(SubSeq(L, n - c + 1, n))))
                         /\ hist[i].db =
                               Database_insert(Pre(i), k,
                                   ListV(IF top THEN SubSeq(L, c + 1, n)
                                         ELSE SubSeq(L, 1, n - c)))
               /\ (~Exists(Pre(i), k) /\ (ArgsOf(i) = <<>> \/ Counted(i)))
                  => /\ hist[i].res = Ok(NullBulk)
                     /\ hist[i].db = Pre(i)

\* C17: LPOP/RPOP k c with c greater than the length of the list at k fail
\* with an out-of-range error and remove no element.
C17_PopBeyondLength ==
    \A i \in Steps :
        (Counted(i) /\ Found(i, {"List"}) /\ CountOf(i) > Len(ListAt(Pre(i), KeyOf(i))))
        => /\ hist[i].res = Err("ERR", "argument is not a number or out of index")
           /\ hist[i].db = Pre(i)

\* three elements have been asked of a list of two
C17_Witness ==
    /\ Len(hist) = 1
    /\ db0 = (K1 :> ListV(<<tA, tB>>))
    /\ hist[1].cmd = "RPOP"
    /\ hist[1].buffer = <<K1, <<"3">>>>
    /\ hist[1].res.kind = "Err"
    /\ database = db0

\* C18: LPOP/RPOP with a count that is not a natural number >= 1 (zero,
\* negative, not a number) fail with error kind ERRUSIZE and leave the
\* store unchanged, whether the key is absent or holds any variant.
C18_PopCountNotNatural ==
    \A i \in Steps :
        (/\ hist[i].cmd \in {"LPOP", "RPOP"}
         /\ Len(ArgsOf(i)) = 1
         /\ ~NaturalText(ArgsOf(i)[1]))
        => /\ hist[i].res.kind = "Err"
           /\ hist[i].res.prefix = "ERRUSIZE"
           /\ hist[i].db = Pre(i)

\* a negative count has been given for a list of three
C18_Witness ==
    /\ Len(hist) = 1
    /\ db0 = (K1 :> ListV(<<tA, tB, tC>>))
    /\ hist[1].cmd = "LPOP"
    /\ hist[1].buffer = <<K1, <<"-", "1">>>>
    /\ hist[1].res.prefix = "ERRUSIZE"
    /\ database = db0

\* C19: LPUSHX/RPUSHX on a key that does not exist fail with 'ERR no list
\* found with entered key' and leave the store unchanged.
C19_PushxAbsent ==
    \A i \in Steps :
        (hist[i].cmd \in {"LPUSHX", "RPUSHX"} /\ ~Exists(Pre(i), KeyOf(i)))
        => /\ hist[i].res = Err("ERR", "no list found with entered key")
           /\ hist[i].db = Pre(i)

\* RPUSHX has been refused on the second key, which a list at the first
\* key does not create
C19_Witness ==
    /\ Len(hist) = 1
    /\ db0 = (K1 :> ListV(<<tA>>))
    /\ hist[1].cmd = "RPUSHX"
    /\ KeyOf(1) = K2
    /\ hist[1].res.kind = "Err"
    /\ DOMAIN database = {K1}

\* the integer an index argument denotes
IndexOf(t) == IntOfNum(ParseISize(t).num)

\* the entries LRANGE replies with for the given elements
EntriesOf(elems) == [j \in 1..Len(elems) |-> RangeEntry(j, elems[j])]

\* the elements of L at positions start..stop, once a negative index is
\* counted from the end, a start below 0 is taken as 0 and a stop at or
\* beyond the length as the last position
ElementsInRange(L, start, stop) ==
    LET len == Len(L)
        a   == IF start < 0 THEN start + len ELSE start
        b   == IF stop < 0 THEN stop + len ELSE stop
        s   == IF a < 0 THEN 0 ELSE a
        e   == IF b >= len THEN len - 1 ELSE b
    IN  IF e >= 0 /\ s <= e THEN SubSeq(L, s + 1, e + 1) ELSE <<>>

\* C20: on a list of length len LRANGE resolves a negative index i to
\* i + len, takes a start still below 0 as 0 and a stop at or beyond len as
\* len - 1, and replies with exactly the entries at positions start..stop,
\* in list order, without gaps or repeats; it never modifies the list.
C20_RangeEntries ==
    \A i \in Steps :
        (/\ hist[i].cmd = "LRANGE"
         /\ Found(i, {"List"})
         /\ Len(ArgsOf(i)) = 2
         /\ ParseISize(ArgsOf(i)[1]).ok
         /\ ParseISize(ArgsOf(i)[2]).ok)
        => LET elems == ElementsInRange(Pre(i)[KeyOf(i)].list,
                                        IndexOf(ArgsOf(i)[1]), IndexOf(ArgsOf(i)[2]))
           IN  /\ hist[i].db = Pre(i)
               /\ IF elems = <<>>
                  THEN hist[i].res \in {Ok(RSimpleString_encode(EMPTY_LIST_OR_SET)),
                                        Ok(RArray_encode(<<>>))}
                  ELSE hist[i].res = Ok(RArray_encode(EntriesOf(elems)))

\* LRANGE k -2 4 has been run on a list of three and replied with its last
\* two elements
C20_Witness ==
    /\ Len(hist) = 1
    /\ db0 = (K1 :> ListV(<<tA, tB, tC>>))
    /\ hist[1].cmd = "LRANGE"
    /\ hist[1].buffer = <<K1, <<"-", "2">>, <<"4">>>>
    /\ hist[1].res = Ok(RArray_encode(EntriesOf(<<tB, tC>>)))
    /\ database = db0

\* command i is LRANGE with two integer indices on a key that holds a list
RangeOnList(i) ==
    /\ hist[i].cmd = "LRANGE"
    /\ Found(i, {"List"})
    /\ Len(ArgsOf(i)) = 2
    /\ ParseISize(ArgsOf(i)[1]).ok
    /\ ParseISize(ArgsOf(i)[2]).ok

\* an index argument of command i, a negative one counted from the end
Resolved(i, x) ==
    LET v == IndexOf(ArgsOf(i)[x])
    IN  IF v < 0 THEN v + Len(Pre(i)[KeyOf(i)].list) ELSE v

\* C21: LRANGE replies with an empty array whenever start > stop or
\* start >= len, once negative indices are resolved against the length.
C21_EmptyRangeIsEmptyArray ==
    \A i \in Steps :
        (/\ RangeOnList(i)
         /\ \/ Resolved(i, 1) > Resolved(i, 2)
            \/ Resolved(i, 1) >= Len(Pre(i)[KeyOf(i)].list))
        => hist[i].res = Ok(<<"*", "0">> \o CRLF)

\* C22: LRANGE k 0 -1 on a list [e1..en] replies with an array of exactly n
\* entries that are the stored elements e1..en themselves, in order.
C22_WholeListIsItsElements ==
    \A i \in Steps :
        (/\ RangeOnList(i)
         /\ ArgsOf(i) = <<<<"0">>, <<"-", "1">>>>
         /\ Pre(i)[KeyOf(i)].list # <<>>)
        => hist[i].res = Ok(RArray_encode(Pre(i)[KeyOf(i)].list))

\* C23: LRANGE replies with the simple string '(empty list or set)'
\* whenever the range selects no element of the list and when the key does
\* not exist: every range that selects no element gets this same reply.
C23_EmptyRangeIsOneReply ==
    \A i \in Steps :
        (\/ /\ RangeOnList(i)
            /\ ElementsInRange(Pre(i)[KeyOf(i)].list,
                               IndexOf(ArgsOf(i)[1]), IndexOf(ArgsOf(i)[2])) = <<>>
         \/ /\ hist[i].cmd = "LRANGE"
            /\ ~Exists(Pre(i), KeyOf(i)))
        => hist[i].res = Ok(<<"+">> \o EMPTY_LIST_OR_SET \o CRLF)


(***************************************************************************)
(* CLEAN                                                                   *)
(***************************************************************************)
\* step i is a CLEAN whose argument is an integer
CleanOn(i) ==
    /\ hist[i].cmd = "CLEAN"
    /\ parse_integer(hist[i].buffer[1]).ok

CleanCount(i) == IntOfNum(parse_integer(hist[i].buffer[1]).num)

\* the keys step i removed are as many as its rounds counted
CountsAreRemovals(i) ==
    Cardinality(DOMAIN hist[i].pre.db \ DOMAIN hist[i].db) = SumOf(hist[i].rounds)

\* a round is followed by another exactly when its count exceeds 25% of n,
\* and the reply is the sum of the counts
RoundsFollowRule(i) ==
    LET rounds == hist[i].rounds
        n      == CleanCount(i)
    IN  /\ rounds # <<>>
        /\ \A j \in 1..Len(rounds) : (j < Len(rounds)) <=> (4 * rounds[j] > n)
        /\ hist[i].res = Ok(RInteger_encode(NumOfNat(SumOf(rounds))))
        /\ CountsAreRemovals(i)

\* C30: CLEAN n runs rounds that each touch n randomly chosen keys and count
\* the keys found expired (which the touch removes); it runs another round
\* exactly when the round's count exceeds 25% of n, and replies with the sum
\* of the counts of all rounds.
C30_RoundsRuleForEveryCount ==
    \A i \in Steps : CleanOn(i) => RoundsFollowRule(i)

(***************************************************************************)
(* Sets                                                                    *)
(***************************************************************************)
\* step i is cmd on a key that is absent or holds a set
SetCommandOn(i, cmd) ==
    /\ hist[i].cmd = cmd
    /\ Exists(Pre(i), KeyOf(i)) => Pre(i)[KeyOf(i)].type = "Set"

\* the set step i found at its key; no set when the key is absent
SetBefore(i) == IF Exists(Pre(i), KeyOf(i)) THEN Pre(i)[KeyOf(i)].set ELSE {}

\* the members step i names
MembersOf(i) == Range(ArgsOf(i))

\* C24: SADD k m1..mn replies with the number of distinct members that were
\* not in the set before (a repeated member counts once, a present member
\* counts zero), creates the set when k is absent, and leaves at k the union
\* of the previous set and {m1..mn}.
C24_SaddCountsNewMembers ==
    \A i \in Steps :
        SetCommandOn(i, "SADD") =>
            /\ hist[i].res =
                   Ok(RInteger_encode(NumOfNat(Cardinality(MembersOf(i) \ SetBefore(i)))))
            /\ Exists(hist[i].db, KeyOf(i))
            /\ hist[i].db[KeyOf(i)] = SetV(SetBefore(i) \cup MembersOf(i))

\* a SADD naming a member twice and a member already present, on a set that
\* an earlier SADD created
C24_Witness ==
    \E i \in Steps :
        /\ SetCommandOn(i, "SADD")
        /\ ~Exists(db0, KeyOf(i))
        /\ ArgsOf(i) = <<tB, tC, tB>>
        /\ SetBefore(i) = {tA, tB}
        /\ hist[i].res = Ok(RInteger_encode(NumOfNat(1)))

\* C25: SREM k m1..mn replies with the number of distinct members that were
\* in the set (a repeated member counts once, an absent member counts zero)
\* and leaves at k the previous set without {m1..mn}; on an absent key it
\* replies 0 and does not create the key.
C25_SremCountsRemovedMembers ==
    \A i \in Steps :
        SetCommandOn(i, "SREM") =>
            /\ hist[i].res =
                   Ok(RInteger_encode(NumOfNat(Cardinality(MembersOf(i) \cap SetBefore(i)))))
            /\ IF Exists(Pre(i), KeyOf(i))
               THEN /\ Exists(hist[i].db, KeyOf(i))
                    /\ hist[i].db[KeyOf(i)] = SetV(SetBefore(i) \ MembersOf(i))
               ELSE hist[i].db = Pre(i)

\* a SREM naming a member twice and an absent member, on a set of two
C25_Witness ==
    \E i \in Steps :
        /\ SetCommandOn(i, "SREM")
        /\ ArgsOf(i) = <<tB, tC, tB>>
        /\ SetBefore(i) = {tA, tB}
        /\ hist[i].res = Ok(RInteger_encode(NumOfNat(1)))
        /\ hist[i].db[KeyOf(i)] = SetV({tA})

\* the SADD and SREM commands before step i that name its key and member m
Naming(i, m) ==
    {j \in 1..(i - 1) : /\ hist[j].cmd \in {"SADD", "SREM"}
                        /\ KeyOf(j) = KeyOf(i)
                        /\ m \in MembersOf(j)}

\* the latest of a non-empty set of steps
Latest(js) == CHOOSE j \in js : \A x \in js : x <= j

\* C26: after any sequence of SADD and SREM on k, SISMEMBER k m replies 1
\* exactly when the most recent command naming m for k was SADD, and 0
\* otherwise (also when k was never created); SISMEMBER never changes the
\* store.
C26_SismemberFollowsLatest ==
    \A i \in Steps :
        hist[i].cmd = "SISMEMBER" =>
            LET m == hist[i].buffer[2]
                isMember == /\ Naming(i, m) # {}
                            /\ hist[Latest(Naming(i, m))].cmd = "SADD"
            IN  /\ hist[i].res =
                       Ok(RInteger_encode(NumOfNat(IF isMember THEN 1 ELSE 0)))
                /\ hist[i].db = Pre(i)

\* a member added and then removed, while another member stays in the set:
\* SISMEMBER replies 0 for it
C26_Witness ==
    /\ Len(hist) = 3
    /\ hist[1].cmd = "SADD" /\ ArgsOf(1) = <<tA, tB>>
    /\ hist[2].cmd = "SREM" /\ ArgsOf(2) = <<tA>>
    /\ hist[3].cmd = "SISMEMBER" /\ hist[3].buffer[2] = tA
    /\ hist[3].res = Ok(RInteger_encode(NumOfNat(0)))
    /\ database[K1] = SetV({tB})

(***************************************************************************)
(* GETDEL                                                                  *)
(***************************************************************************)
\* C27: GETDEL deletes the key if and only if it holds a string: on a string
\* it replies with the value as a bulk string and the key is absent
\* afterwards; on a list or a set it replies with an error and the key keeps
\* its value; on an absent key it replies with the null bulk and the store is
\* unchanged.
C27_GetdelDeletesOnlyStrings ==
    \A i \in Steps :
        (hist[i].cmd = "GETDEL" /\ Len(hist[i].buffer) = 1) =>
            IF ~Exists(Pre(i), KeyOf(i))
            THEN /\ hist[i].res = Ok(NullBulk)
                 /\ hist[i].db = Pre(i)
            ELSE IF Pre(i)[KeyOf(i)].type = "String"
            THEN /\ hist[i].res = Ok(BulkString(Pre(i)[KeyOf(i)].str))
                 /\ ~Exists(hist[i].db, KeyOf(i))
                 /\ \A k \in DOMAIN Pre(i) \ {KeyOf(i)} :
                        Exists(hist[i].db, k) /\ hist[i].db[k] = Pre(i)[k]
                 /\ DOMAIN hist[i].db \subseteq DOMAIN Pre(i)
            ELSE /\ hist[i].res.kind = "Err"
                 /\ hist[i].db = Pre(i)

(***************************************************************************)
(* INCRBY and DECRBY                                                       *)
(***************************************************************************)
\* step i is INCRBY or DECRBY with a key and an amount, on a key that is
\* absent or holds a string
ModifiesValue(i) ==
    /\ hist[i].cmd \in {"INCRBY", "DECRBY"}
    /\ Len(hist[i].buffer) = 2
    /\ Exists(Pre(i), KeyOf(i)) => Pre(i)[KeyOf(i)].type = "String"

\* the amount of step i is an integer, and so is the text at its key
IntegersAt(i) ==
    /\ ParseISize(hist[i].buffer[2]).ok
    /\ Exists(Pre(i), KeyOf(i)) => ParseISize(Pre(i)[KeyOf(i)].str).ok

\* v + n for INCRBY, v - n for DECRBY
ExactResult(i) ==
    IF hist[i].cmd = "INCRBY"
    THEN NumAdd(PriorNum(i, KeyOf(i)), ParseISize(hist[i].buffer[2]).num)
    ELSE NumSub(PriorNum(i, KeyOf(i)), ParseISize(hist[i].buffer[2]).num)

\* C28: INCRBY k n (DECRBY k n) on a key holding the decimal text of an
\* integer v replies with v+n (v-n) and stores the decimal text of the result
\* at k; an absent key behaves as if it held 0 and is created with the text
\* of the result; this holds for negative v and negative n (results within
\* the 64-bit range).
C28_ValueModification ==
    \A i \in Steps :
        (ModifiesValue(i) /\ IntegersAt(i) /\ InISizeRange(ExactResult(i))) =>
            /\ hist[i].res = Ok(<<":">> \o NumText(ExactResult(i)) \o CRLF)
            /\ Exists(hist[i].db, KeyOf(i))
            /\ hist[i].db[KeyOf(i)] = StringV(NumText(ExactResult(i)))

\* DECRBY k -3 on the text "-7" replies -4 and stores "-4"
C28_Witness ==
    \E i \in Steps :
        /\ hist[i].cmd = "DECRBY"
        /\ Exists(Pre(i), KeyOf(i))
        /\ Pre(i)[KeyOf(i)] = StringV(<<"-", "7">>)
        /\ hist[i].buffer[2] = <<"-", "3">>
        /\ hist[i].res = Ok(<<":", "-", "4">> \o CRLF)
        /\ hist[i].db[KeyOf(i)] = StringV(<<"-", "4">>)

\* C29: INCRBY/DECRBY k n fail with 'ERR value is not an integer or out of
\* range' when the text at k or the amount n is not a decimal integer; the
\* store is then unchanged: k keeps its text and an absent k is not created.
\* Whether an absent k is left absent depends on the point at which the
\* missing key is set to "0" (Creations); the handler that decides it is not
\* part of the sources.
C29_NotAnIntegerLeavesStore ==
    \A i \in Steps :
        (ModifiesValue(i) /\ ~IntegersAt(i)) =>
            /\ hist[i].res = Err("ERR", "value is not an integer or out of range")
            /\ hist[i].db = Pre(i)

(***************************************************************************)
(* CLEAN removes expired keys only                                         *)
(***************************************************************************)
\* the keys step i removed
RemovedBy(i) == DOMAIN hist[i].pre.db \ DOMAIN hist[i].db

\* the keys whose deadline was past when step i started
ExpiredBefore(i) == {k \in DOMAIN hist[i].pre.expiry : hist[i].pre.expiry[k] = "past"}

\* key k is as step i found it: present with the same value
KeptBy(i, k) == k \in DOMAIN hist[i].db /\ hist[i].db[k] = hist[i].pre.db[k]

\* C31 as stated: the reply of CLEAN never exceeds the number of keys that
\* were expired when it started, each expired key is counted at most once,
\* and every key with no deadline or a future deadline is still present with
\* its value afterwards.
C31_OnlyExpiredAtStart ==
    \A i \in Steps :
        hist[i].cmd = "CLEAN" =>
            /\ SumOf(hist[i].rounds) <= Cardinality(ExpiredBefore(i))
            /\ SumOf(hist[i].rounds) = Cardinality(RemovedBy(i))
            /\ \A k \in DOMAIN hist[i].pre.db \ ExpiredBefore(i) : KeptBy(i, k)

\* C31: CLEAN removes only keys whose deadline has passed when they are
\* touched: every removed key had a deadline, past when CLEAN started or
\* passed while it ran; the counts add up to the number of removed keys, so
\* each is counted once and the total never exceeds the number of keys with
\* a deadline; every key with no deadline, and every key CLEAN leaves, is
\* present with its value afterwards.
C31_OnlyDeadlinesPassed ==
    \A i \in Steps :
        hist[i].cmd = "CLEAN" =>
            /\ RemovedBy(i) \subseteq DOMAIN hist[i].pre.expiry
            /\ SumOf(hist[i].rounds) = Cardinality(RemovedBy(i))
            /\ SumOf(hist[i].rounds) <= Cardinality(DOMAIN hist[i].pre.expiry)
            /\ DOMAIN hist[i].db \subseteq DOMAIN hist[i].pre.db
            /\ \A k \in DOMAIN hist[i].pre.db \ RemovedBy(i) : KeptBy(i, k)
            /\ \A k \in DOMAIN hist[i].pre.db \ DOMAIN hist[i].pre.expiry : KeptBy(i, k)
            /\ hist[i].res.kind = "Ok" =>
                   hist[i].res = Ok(RInteger_encode(NumOfNat(Cardinality(RemovedBy(i)))))

\* a CLEAN on three keys, one expired, one with a later deadline, one with
\* none: it replies 1, the expired key is gone and the other two remain
C31_Witness ==
    \E i \in Steps :
        /\ hist[i].cmd = "CLEAN"
        /\ DOMAIN hist[i].pre.db = CleanKeys
        /\ hist[i].pre.expiry = (K1 :> "past") @@ (K2 :> "future")
        /\ hist[i].rounds = <<1, 0>>
        /\ hist[i].res = Ok(<<":", "1">> \o CRLF)
        /\ RemovedBy(i) = {K1}
        /\ KeptBy(i, K2) /\ KeptBy(i, K3)

\* C34: for every integer n that the parser of CLEAN accepts, zero and
\* negative values included, and every store, CLEAN n returns with an
\* integer reply; it never loops forever holding the database lock.
C34_CleanTerminates ==
    \A i \in Steps :
        CleanOn(i) =>
            /\ hist[i].res # Hang
            /\ hist[i].res = Ok(RInteger_encode(NumOfNat(SumOf(hist[i].rounds))))
            /\ ~Locked

(***************************************************************************)
(* SHUTDOWN                                                                *)
(***************************************************************************)
\* C32: after SHUTDOWN returns, the shutdown flag is set exactly when the
\* reply is OK: a successful SHUTDOWN sets the flag and connects to the
\* listen address, and whenever SHUTDOWN returns an error (the address cannot
\* be obtained or the connection fails) the flag is cleared.
C32_FlagSetIffOk ==
    \A i \in Steps :
        hist[i].cmd = "SHUTDOWN" =>
            /\ hist[i].flag <=> (hist[i].res = Ok(<<"+", "O", "K">> \o CRLF))
            /\ hist[i].res.kind = "Ok" => hist[i].connects = 1 /\ hist[i].connected
            /\ hist[i].res.kind = "Err" => ~hist[i].flag

(***************************************************************************)
(* Subscriptions                                                           *)
(***************************************************************************)
\* C33: add_subscriptions returns the number of the given channels to which
\* the client was not subscribed before the call: channels already in the
\* subscription set, and repeats inside the argument list, are not counted.
C33_ReturnsNewlySubscribed ==
    (clast.op = "add_subscriptions" /\ clast.pre.status \in {"Executor", "Subscriber"})
    => clast.ret = Returned(Cardinality(Range(clast.channels) \ clast.pre.subscriptions))

\* C36: in every state reached through add_subscriptions and
\* remove_subscriptions from a new client, the status is Subscriber if and
\* only if the subscription set is non-empty, and an Executor has an empty
\* subscription set; calls with an empty channel list included.
C36_SubscriberIffSubscribed ==
    /\ client.status = "Subscriber" <=> client.subscriptions # {}
    /\ client.status = "Executor" => client.subscriptions = {}

(***************************************************************************)
(* The vector handlers LPush and LPop                                      *)
(***************************************************************************)
\* step i is an LPUSH on a list that holds elements, and step i + 1 an LPOP
\* on the same key whose count does not exceed the length of the list
PushThenPop(i) ==
    /\ i + 1 <= Len(hist)
    /\ hist[i].cmd = "LPUSH" /\ hist[i + 1].cmd = "LPOP"
    /\ KeyOf(i + 1) = KeyOf(i)
    /\ Exists(Pre(i), KeyOf(i))
    /\ Pre(i)[KeyOf(i)].type = "List"
    /\ Pre(i)[KeyOf(i)].list # <<>>
    /\ ArgsOf(i + 1) \in {<<>>, <<<<"1">>>>, <<<<"2">>>>, <<<<"3">>>>}

\* C37: with the vector handlers the value pushed last is the head of the
\* list: after LPUSH k v1 .. vn on a list that holds elements, LPOP k returns
\* vn, and LPOP k c returns the pushed values newest first before any older
\* element.
C37_LastPushedIsHead ==
    \A i \in Steps :
        PushThenPop(i) =>
            LET newest == Reverse(ArgsOf(i)) \o Pre(i)[KeyOf(i)].list
                count  == ArgsOf(i + 1)
                asked  == IntOfNum(ParseISize(count[1]).num)
                taken  == IF asked > Len(newest) THEN Len(newest) ELSE asked
            IN  hist[i + 1].res =
                    IF count \in {<<>>, <<<<"1">>>>}
                    THEN Ok(RBulkString_encode(newest[1]))
                    ELSE Ok(RArray_encode(SubSeq(newest, 1, taken)))

(***************************************************************************)
(* Emptied containers                                                      *)
(***************************************************************************)
\* step i is a pop that takes every element of the list at its key
PopsAll(i) ==
    /\ hist[i].cmd \in {"LPOP", "RPOP"}
    /\ Found(i, {"List"})
    /\ Pre(i)[KeyOf(i)].list # <<>>
    /\ \/ ArgsOf(i) = <<>> /\ Len(Pre(i)[KeyOf(i)].list) = 1
       \/ Counted(i) /\ CountOf(i) = Len(Pre(i)[KeyOf(i)].list)

\* step i is a SREM that names every member of the set at its key
RemovesAll(i) ==
    /\ hist[i].cmd = "SREM"
    /\ Found(i, {"Set"})
    /\ Pre(i)[KeyOf(i)].set # {}
    /\ Pre(i)[KeyOf(i)].set \subseteq MembersOf(i)

\* step j is a command of another type than what its key holds
OfOtherType(j) == Found(j, {"String", "List", "Set"} \ {Expected(hist[j].cmd)})

\* C38: removing the last element of a container does not delete its key:
\* after LPOP/RPOP takes every element of a list, or SREM removes every
\* member of a set, the key still exists and holds an empty list or set of
\* the same variant, so a later command of another type on that key is still
\* rejected.
C38_EmptiedContainerKeepsKey ==
    \A i \in Steps :
        /\ PopsAll(i) =>
               /\ hist[i].res.kind = "Ok"
               /\ Exists(hist[i].db, KeyOf(i))
               /\ hist[i].db[KeyOf(i)] = ListV(<<>>)
        /\ RemovesAll(i) =>
               /\ hist[i].res.kind = "Ok"
               /\ Exists(hist[i].db, KeyOf(i))
               /\ hist[i].db[KeyOf(i)] = SetV({})
        /\ (PopsAll(i) \/ RemovesAll(i)) =>
               \A j \in Steps :
                   (j = i + 1 /\ KeyOf(j) = KeyOf(i) /\ Expected(hist[j].cmd) # Expected(hist[i].cmd))
                   => /\ OfOtherType(j)
                      /\ hist[j].res.kind = "Err"
                      /\ hist[j].db = Pre(j)

\* a SREM that removes the only member of a set, and then an LPUSH on the
\* key, which is rejected: the key still holds the empty set
C38_Witness ==
    /\ Len(hist) = 2
    /\ RemovesAll(1)
    /\ hist[1].res = Ok(<<":", "1">> \o CRLF)
    /\ hist[2].cmd = "LPUSH"
    /\ KeyOf(2) = KeyOf(1)
    /\ hist[2].res.kind = "Err"
    /\ database[KeyOf(1)] = SetV({})

(***************************************************************************)
(* Concurrent clients                                                      *)
(***************************************************************************)
\* the store and deadlines the i-th returned command should have found: what
\* the command returned before it left, or the initial store
LeftBefore(i) ==
    IF i = 1 THEN Stored(db0, ThreadDeadlines(db0))
    ELSE Stored(hist[i - 1].db, hist[i - 1].expiry)

\* the i-th returned command did to the store it found, and replied, what
\* its handler does when it runs alone on that store
RanAlone(i) ==
    LET c == hist[i]
    IN  IF c.cmd = "GETDEL"
        THEN Left(Stored(c.db, c.expiry), c.res) \in Getdel_run_stored(c.buffer, c.pre)
        ELSE IF c.cmd = "LPUSHX"
        THEN Left(Stored(c.db, c.expiry), c.res) \in LPushx_run_stored(c.buffer, c.pre)
        ELSE \E out \in Clean_run(c.buffer, c.pre) :
                 /\ out.db = c.db
                 /\ out.expiry = c.expiry
                 /\ out.res = c.res
                 /\ out.rounds = c.rounds

\* C35: store commands issued concurrently by different clients execute one
\* at a time: a handler holds the lock of the store for its whole run, so no
\* other command runs between the type check of GETDEL and its removal or
\* between two rounds of CLEAN; the replies and the final store are those of
\* the commands run one after another in the order they returned, and two
\* concurrent pushes to one list both take effect.
C35_OneAtATime ==
    /\ \A t \in Clients : threads[t].pc \in InHandler => mutex = t
    /\ \A t \in Clients :
           threads[t].pc \in {"locked", "remove"} =>
               Stored(database, expiry) = threads[t].pre
    /\ \A i \in Steps : hist[i].pre = LeftBefore(i) /\ RanAlone(i)
    /\ (\A t \in Clients : threads[t].pc \notin InHandler) =>
           Stored(database, expiry) = LeftBefore(Len(hist) + 1)
    /\ (/\ Len(hist) >= 2
        /\ \A i \in 1..2 : hist[i].cmd = "LPUSHX" /\ hist[i].res.kind = "Ok")
       => hist[2].db[K1].list = <<hist[2].buffer[2], hist[1].buffer[2]>> \o db0[K1].list

\* one client is between two rounds of CLEAN, having found a key expired,
\* while the other client waits for the lock with a GETDEL
C35_Witness ==
    \E t \in Clients, u \in Clients :
        /\ t # u
        /\ threads[t].pc = "round" /\ threads[t].rounds = <<1>>
        /\ mutex = t
        /\ threads[u].pc = "start" /\ threads[u].cmd = "GETDEL"
====
